---------------------------- MODULE Spec2Model ----------------------------
(***************************************************************************)
(* A model of the adaptive conversion engine of                            *)
(* 01-Setup/backend/agents: agentic_core.py (context analysis, strategy    *)
(* table), tool_system.py (tool selection and orchestration),              *)
(* learning_system.py (case store, strategy statistics, pattern matching)  *)
(* and reflection_system.py (reflection triggers).                         *)
(*                                                                         *)
(* Conventions.                                                            *)
(*  - A Python call either returns a value or raises: Return(v), Raise(e). *)
(*  - Floats in [0,1] are integers in hundredths (0.85 is 85); quotients   *)
(*    are kept exact by cross-multiplication or as reduced fractions, so   *)
(*    the model is the code's arithmetic without rounding error.           *)
(*  - Optional values are sequences: <<>> is None, <<v>> is v.             *)
(*  - A text is the sequence of its '\n'-separated lines (never empty:     *)
(*    ''.split('\n') is ['']); each line comes from the vocabulary Lines,  *)
(*    whose substring and regex facts are tabulated in LineFacts.          *)
(*  - ret records the last call made on the program: the operation, its    *)
(*    inputs and its outcome.                                              *)
(***************************************************************************)
EXTENDS Integers, Sequences, FiniteSets, TLC

VARIABLES
    tool_performance,      \* AgenticToolSelector.tool_performance
    memory,                \* AgenticConverter.memory
    threads,               \* the requests in flight: position and locals of each
    reflection_history,    \* SelfReflectionEngine.reflection_history
    last_reflection,       \* SelfReflectionEngine.last_reflection
    improvement_actions,   \* SelfReflectionEngine.improvement_actions
    autonomy_level,        \* FullyAgenticConverter.autonomy_level (hundredths)
    trigger_log,           \* history variable: the triggers that convert found
    learned_patterns,      \* PatternLearner.learned_patterns, in dict order
    conversion_history,    \* LearningAgenticConverter.conversion_history
    conversion_cases,      \* sqlite table conversion_cases
    strategy_performance,  \* sqlite table strategy_performance
    arg,                   \* the inputs of a call of a pure method, drawn at the start
    ret,                   \* the last call: op, inputs, outcome
    store_log,             \* history variable: the store_conversion_case calls
    perf_log               \* history variable: the update_strategy_performance calls

\* the fields of the reflection engine, the gate of its converter and the
\* log of the triggers
reflection_engine ==
    <<reflection_history, last_reflection, improvement_actions, autonomy_level,
      trigger_log>>

vars == <<tool_performance, memory, threads, reflection_engine, learned_patterns,
          conversion_history, conversion_cases, strategy_performance, arg, ret,
          store_log, perf_log>>

\* the program's own state: everything but the record of the call
state == <<tool_performance, memory, threads, reflection_engine, learned_patterns,
           conversion_history, conversion_cases, strategy_performance, store_log,
           perf_log>>

---------------------------------------------------------------------------
(* Python outcomes *)

Return(v) == [raised |-> FALSE, value |-> v, error |-> ""]

Raise(e) == [raised |-> TRUE, value |-> <<>>, error |-> e]

None == <<>>

\* the element of a singleton set; The({ e(x) : x \in {v} }) is e(v), with v
\* evaluated once
The(S) == CHOOSE x \in S : TRUE

Some(v) == <<v>>

NoCall == [op |-> "none"]

---------------------------------------------------------------------------
(* agentic_core.py: ConversionStrategy, ConversionContext, _decide_strategy *)

SIMPLE == "simple"

COMPLEX == "complex"

CUSTOM_COMMANDS == "custom_commands"

FORM_HEAVY == "form_heavy"

API_TESTING == "api_testing"

ConversionStrategy == {SIMPLE, COMPLEX, CUSTOM_COMMANDS, FORM_HEAVY, API_TESTING}

\* A ConversionContext instance.  class is the Python type of the value: the
\* dataclass has attributes, the dict built from it (context.__dict__) has keys.
ConversionContext(cx, cc, api, form, tc) ==
    [class |-> "ConversionContext",
     code_complexity |-> cx,
     has_custom_commands |-> cc,
     has_api_calls |-> api,
     has_form_interactions |-> form,
     test_count |-> tc,
     previous_attempts |-> <<>>,
     success_rate |-> 0]

\* context.__dict__ : the same fields as a dict
AsDict(context) == [context EXCEPT !.class = "dict"]

\* The table with the api_testing row tested before custom_commands.
decide_strategy_api_first(context) ==
    IF context.class # "ConversionContext" THEN Raise("AttributeError")
    ELSE IF context.has_api_calls /\ context.code_complexity > 7 THEN Return(API_TESTING)
    ELSE IF context.has_custom_commands THEN Return(CUSTOM_COMMANDS)
    ELSE IF context.has_form_interactions /\ context.test_count > 3 THEN Return(FORM_HEAVY)
    ELSE IF context.code_complexity > 6 THEN Return(COMPLEX)
    ELSE Return(SIMPLE)

\* the table consulted only while the converter's memory is empty
decide_strategy_by_memory(context) ==
    IF context.class # "ConversionContext" THEN Raise("AttributeError")
    ELSE IF DOMAIN memory # {} THEN Return(SIMPLE)
    ELSE IF context.has_custom_commands THEN Return(CUSTOM_COMMANDS)
    ELSE IF context.has_api_calls /\ context.code_complexity > 7 THEN Return(API_TESTING)
    ELSE IF context.has_form_interactions /\ context.test_count > 3 THEN Return(FORM_HEAVY)
    ELSE IF context.code_complexity > 6 THEN Return(COMPLEX)
    ELSE Return(SIMPLE)

\* AgenticConverter._decide_strategy.  It reads attributes (context.has_...):
\* on a dict that is an AttributeError.
decide_strategy(context) ==
    IF context.class # "ConversionContext" THEN Raise("AttributeError")
    ELSE IF context.has_custom_commands THEN Return(CUSTOM_COMMANDS)
    ELSE IF context.has_api_calls /\ context.code_complexity > 7 THEN Return(API_TESTING)
    ELSE IF context.has_form_interactions /\ context.test_count > 3 THEN Return(FORM_HEAVY)
    ELSE IF context.code_complexity > 6 THEN Return(COMPLEX)
    ELSE Return(SIMPLE)

---------------------------------------------------------------------------
(* Bounds of the strategy-table check *)

MaxComplexity == 11

MaxTestCount == 5

Contexts ==
    { ConversionContext(cx, cc, api, form, tc) :
        cx \in 0..MaxComplexity, cc \in BOOLEAN, api \in BOOLEAN,
        form \in BOOLEAN, tc \in 0..MaxTestCount }

---------------------------------------------------------------------------
(* Input texts.  A text is its sequence of lines; the facts a line offers   *)
(* to the code's substring tests (x in code, code.count(x)) and regular    *)
(* expressions are tabulated per line: has is the set of needles the line  *)
(* contains ("custom" is tested on code.lower()), it / describe /          *)
(* nested_it are code.count('it('), code.count('describe('),               *)
(* code.count('  it('), intercepts / chains / customs / shoulds are the    *)
(* match counts of PatternAnalyzerTool.execute's expressions, regex_out is *)
(* the line after RegexMatcherTool.execute's substitutions.                *)

Lines ==
    { "",
      "cy.visit('/home')",
      "cy.get('#user').type('bob')",
      "cy.get('#msg').should('contain', 'ok')",
      "cy.click('#go')",
      "cy.intercept('GET', '/api/users')",
      "cy.login('admin')",
      "cy.customLogin()",
      "describe('suite', () => {",
      "  it('works', () => {",
      "await page.goto('/home')",
      "page.locator('#user').fill('bob')",
      "page.locator('#msg').toContainText('ok')" }

LineFacts(line) ==
    CASE line = "" ->
           [has |-> {},
            it |-> 0, describe |-> 0, nested_it |-> 0, intercepts |-> 0,
            chains |-> 0, customs |-> 0, shoulds |-> 0,
            regex_out |-> ""]
      [] line = "cy.visit('/home')" ->
           [has |-> {"cy."},
            it |-> 1, describe |-> 0, nested_it |-> 0, intercepts |-> 0,
            chains |-> 0, customs |-> 0, shoulds |-> 0,
            regex_out |-> "await page.goto('/home')"]
      [] line = "cy.get('#user').type('bob')" ->
           [has |-> {"cy.", ".type(", "cy.get("},
            it |-> 0, describe |-> 0, nested_it |-> 0, intercepts |-> 0,
            chains |-> 1, customs |-> 0, shoulds |-> 0,
            regex_out |-> "page.locator('#user').fill('bob')"]
      [] line = "cy.get('#msg').should('contain', 'ok')" ->
           [has |-> {"cy.", ".should(", "cy.get("},
            it |-> 0, describe |-> 0, nested_it |-> 0, intercepts |-> 0,
            chains |-> 1, customs |-> 0, shoulds |-> 1,
            regex_out |-> "page.locator('#msg').toContainText('ok')"]
      [] line = "cy.click('#go')" ->
           [has |-> {"cy.", "cy.click("},
            it |-> 0, describe |-> 0, nested_it |-> 0, intercepts |-> 0,
            chains |-> 0, customs |-> 0, shoulds |-> 0,
            regex_out |-> "cy.click('#go')"]
      [] line = "cy.intercept('GET', '/api/users')" ->
           [has |-> {"cy.", "intercept", "cy.intercept"},
            it |-> 0, describe |-> 0, nested_it |-> 0, intercepts |-> 1,
            chains |-> 0, customs |-> 1, shoulds |-> 0,
            regex_out |-> "cy.intercept('GET', '/api/users')"]
      [] line = "cy.login('admin')" ->
           [has |-> {"cy.", "cy.login"},
            it |-> 0, describe |-> 0, nested_it |-> 0, intercepts |-> 0,
            chains |-> 0, customs |-> 1, shoulds |-> 0,
            regex_out |-> "cy.login('admin')"]
      [] line = "cy.customLogin()" ->
           [has |-> {"cy.", "cy.custom", "custom"},
            it |-> 0, describe |-> 0, nested_it |-> 0, intercepts |-> 0,
            chains |-> 0, customs |-> 1, shoulds |-> 0,
            regex_out |-> "cy.customLogin()"]
      [] line = "describe('suite', () => {" ->
           [has |-> {"describe("},
            it |-> 0, describe |-> 1, nested_it |-> 0, intercepts |-> 0,
            chains |-> 0, customs |-> 0, shoulds |-> 0,
            regex_out |-> "describe('suite', () => {"]
      [] line = "  it('works', () => {" ->
           [has |-> {},
            it |-> 1, describe |-> 0, nested_it |-> 1, intercepts |-> 0,
            chains |-> 0, customs |-> 0, shoulds |-> 0,
            regex_out |-> "  it('works', () => {"]
      [] line = "await page.goto('/home')" ->
           [has |-> {"await"},
            it |-> 0, describe |-> 0, nested_it |-> 0, intercepts |-> 0,
            chains |-> 0, customs |-> 0, shoulds |-> 0,
            regex_out |-> "await page.goto('/home')"]
      [] line = "page.locator('#user').fill('bob')" ->
           [has |-> {"page.locator"},
            it |-> 0, describe |-> 0, nested_it |-> 0, intercepts |-> 0,
            chains |-> 0, customs |-> 0, shoulds |-> 0,
            regex_out |-> "page.locator('#user').fill('bob')"]
      [] line = "page.locator('#msg').toContainText('ok')" ->
           [has |-> {"page.locator"},
            it |-> 0, describe |-> 0, nested_it |-> 0, intercepts |-> 0,
            chains |-> 0, customs |-> 0, shoulds |-> 0,
            regex_out |-> "page.locator('#msg').toContainText('ok')"]

\* x in code
Contains(code, needle) ==
    \E i \in 1..Len(code) : needle \in LineFacts(code[i]).has

RECURSIVE SumOver(_, _, _, _)
\* the sum of a per-line count over lines lo..hi (by halves)
SumOver(code, field, lo, hi) ==
    IF lo > hi THEN 0
    ELSE IF lo = hi THEN LineFacts(code[lo])[field]
    ELSE SumOver(code, field, lo, (lo + hi) \div 2)
         + SumOver(code, field, (lo + hi) \div 2 + 1, hi)

\* code.count(x) and len(re.findall(x, code)), by the per-line field
CountOf(code, field) == SumOver(code, field, 1, Len(code))

\* body followed by n empty lines
Pad(body, n) == body \o [i \in 1..n |-> ""]

---------------------------------------------------------------------------
(* The generation oracle, self.llm(prompt).  Its answer to the analysis     *)
(* prompt is a JSON object (json holds the keys it gives, None for a       *)
(* missing key), a JSON value that is not an object, text that is not      *)
(* JSON, or an exception.                                                  *)

JsonObject(cx, cc, api, form, tc) ==
    [kind |-> "object",
     json |-> [complexity_score |-> cx, has_custom_commands |-> cc,
               has_api_calls |-> api, has_form_interactions |-> form,
               test_count |-> tc]]

EmptyObject == JsonObject(None, None, None, None, None)

NonObject == [kind |-> "non_object"]

NotJson == [kind |-> "text"]

OracleRaises == [kind |-> "raise"]

\* dict.get(key, default)
Get(json, key, default) == IF json[key] = None THEN default ELSE json[key][1]

\* the except-branch of _analyze_code: heuristics on the text
heuristic_context(code) ==
    ConversionContext(
        Len(code) \div 10,
        Contains(code, "cy.") /\ Contains(code, "custom"),
        Contains(code, "intercept") \/ Contains(code, "request"),
        Contains(code, ".type(") \/ Contains(code, ".select("),
        CountOf(code, "it"))

\* AgenticConverter._analyze_code.  The oracle call is outside the try; the
\* try catches json.JSONDecodeError only, so analysis.get on a JSON value
\* that is not an object raises AttributeError out of the method.
analyze_code(code, response) ==
    IF response.kind = "raise" THEN Raise("OracleError")
    ELSE IF response.kind = "text" THEN Return(heuristic_context(code))
    ELSE IF response.kind = "non_object" THEN Raise("AttributeError")
    ELSE Return(ConversionContext(
            Get(response.json, "complexity_score", 5),
            Get(response.json, "has_custom_commands", FALSE),
            Get(response.json, "has_api_calls", FALSE),
            Get(response.json, "has_form_interactions", FALSE),
            Get(response.json, "test_count", 1)))

---------------------------------------------------------------------------
(* tool_system.py: the tools, their selection and their execution.          *)
(* Confidences are in tenths; a score confidence*0.7 + historical*0.3 is   *)
(* the exact fraction ScoreNum / ScoreDen.                                 *)

AST_PARSER == "ast_parser"

REGEX_MATCHER == "regex_matcher"

PATTERN_ANALYZER == "pattern_analyzer"

SYNTAX_VALIDATOR == "syntax_validator"

\* AgenticToolSelector.tools, in registration order
Tools == <<AST_PARSER, REGEX_MATCHER, PATTERN_ANALYZER, SYNTAX_VALIDATOR>>

\* the number of lines of code.split('\n') that contain 'cy.'
CypressCommands(code) ==
    Cardinality({i \in 1..Len(code) : "cy." \in LineFacts(code[i]).has})

\* Tool.can_handle of the four tools, in tenths
can_handle(tool, code) ==
    CASE tool = AST_PARSER ->
           IF CountOf(code, "describe") > 2 \/ CountOf(code, "nested_it") > 0 THEN 9
           ELSE IF CountOf(code, "describe") > 0 THEN 7
           ELSE 3
      [] tool = REGEX_MATCHER ->
           LET cypress_commands == CypressCommands(code)
           IN  IF cypress_commands < 5 /\ ~Contains(code, "describe(") THEN 8
               ELSE IF cypress_commands < 10 THEN 6
               ELSE 2
      [] tool = PATTERN_ANALYZER ->
           IF \/ Contains(code, "cy.intercept")
              \/ Contains(code, "cy.login") \/ Contains(code, "cy.custom")
              \/ (Contains(code, ".should(") /\ Contains(code, ".and("))
           THEN 9 ELSE 4
      [] tool = SYNTAX_VALIDATOR -> 8

\* A tool's result dict, with the keys the orchestration and the strategy
\* selection read (a key the tool does not set is None); tool_type is set by
\* execute_tools.
ToolResult(success, tool_used, suggested, converted, issues) ==
    [success |-> success, tool_used |-> Some(tool_used), tool_type |-> None,
     suggested_strategy |-> suggested, converted_code |-> converted,
     issues |-> issues, error |-> None]

\* the dict that the except branch of execute_tools appends for a tool:
\* {"success": False, "error": str(e), "tool_type": tool.tool_type.value}
FailedResult(tool, error) ==
    [success |-> FALSE, tool_used |-> None, tool_type |-> Some(tool),
     suggested_strategy |-> None, converted_code |-> None,
     issues |-> <<>>, error |-> Some(error)]

\* SyntaxValidatorTool.execute's list of issues
validator_issues(code) ==
    (IF Contains(code, "await") /\ ~Contains(code, "async")
       THEN <<"Missing 'async' keyword in function definition">> ELSE <<>>)
    \o (IF Contains(code, "page.locator") /\ ~Contains(code, "await")
       THEN <<"Missing 'await' before page.locator calls">> ELSE <<>>)
    \o (IF Contains(code, "cy.")
       THEN <<"Unconverted Cypress commands found">> ELSE <<>>)
    \o (IF Contains(code, "expect(") /\ ~Contains(code, "import")
       THEN <<"Missing Playwright test imports">> ELSE <<>>)

\* Tool.execute of the four tools
execute(tool, code) ==
    CASE tool = AST_PARSER ->
           ToolResult(TRUE, "AST_PARSER", None, None, <<>>)
      [] tool = REGEX_MATCHER ->
           ToolResult(TRUE, "REGEX_MATCHER", None,
                      Some([i \in 1..Len(code) |-> LineFacts(code[i]).regex_out]), <<>>)
      [] tool = PATTERN_ANALYZER ->
           LET strategy ==
                 IF CountOf(code, "intercepts") > 0 THEN "api_testing_focused"
                 ELSE IF CountOf(code, "customs") > 2 THEN "custom_command_heavy"
                 ELSE IF CountOf(code, "chains") > CountOf(code, "shoulds")
                      THEN "interaction_heavy"
                 ELSE "assertion_heavy"
           IN  ToolResult(TRUE, "PATTERN_ANALYZER", Some(strategy), None, <<>>)
      [] tool = SYNTAX_VALIDATOR ->
           LET issues == validator_issues(code)
           IN  ToolResult(issues = <<>>, "SYNTAX_VALIDATOR", None, None, issues)

RECURSIVE GCD(_, _)
GCD(a, b) == IF b = 0 THEN a ELSE GCD(b, a % b)

\* the fraction n/d (d > 0) in lowest terms, as <<numerator, denominator>>
Fraction(n, d) == The({ <<n \div g, d \div g>> : g \in {GCD(n, d)} })

\* tool_key = f"{tool.tool_type.value}_{context.get('complexity', 'unknown')}"
ToolKey(tool, context) ==
    <<tool, IF "complexity" \in DOMAIN context
            THEN ToString(context.complexity) ELSE "unknown">>

\* tool_performance.get(tool_key, {}).get('success_rate', 0.5), as <<num, den>>
historical_success(tp, key) ==
    IF key \in DOMAIN tp THEN tp[key].success_rate ELSE <<1, 2>>

\* final_score = confidence * 0.7 + historical_success * 0.3, as the exact
\* fraction <<num, den>> (confidence in tenths, historical_success = h[1]/h[2])
final_score(tp, tool, code, context) ==
    The({ <<7 * can_handle(tool, code) * h[2] + 30 * h[1], 100 * h[2]>> :
            h \in {historical_success(tp, ToolKey(tool, context))} })

\* the list tool_scores of select_tools before it is sorted
tool_scores(tp, code, context) ==
    << [tool |-> Tools[1], score |-> final_score(tp, Tools[1], code, context)],
       [tool |-> Tools[2], score |-> final_score(tp, Tools[2], code, context)],
       [tool |-> Tools[3], score |-> final_score(tp, Tools[3], code, context)],
       [tool |-> Tools[4], score |-> final_score(tp, Tools[4], code, context)] >>

\* s1 > s2, for scores <<num, den>>
ScoreGreater(s1, s2) == s1[1] * s2[2] > s2[1] * s1[2]

\* score > percent / 100
ScoreAbove(score, percent) == 100 * score[1] > percent * score[2]

\* tool_scores.sort(key=lambda x: x[1], reverse=True): descending, stable
sort_by_score(scores) ==
    LET before(i, j) ==
            \/ ScoreGreater(scores[i].score, scores[j].score)
            \/ /\ ~ScoreGreater(scores[j].score, scores[i].score)
               /\ i < j
        pos(i) == 1 + Cardinality({j \in 1..Len(scores) : j # i /\ before(j, i)})
    IN  [p \in 1..Len(scores) |-> scores[CHOOSE i \in 1..Len(scores) : pos(i) = p]]

\* the loop with the threshold of the top scorer, 0.5
RECURSIVE add_complementary_above_half(_, _, _)
add_complementary_above_half(sorted, k, selected) ==
    IF k > Len(sorted) THEN Return(selected)
    ELSE IF ~ScoreAbove(sorted[k].score, 50)
         THEN add_complementary_above_half(sorted, k + 1, selected)
    ELSE IF selected = <<>> THEN Raise("IndexError")
    ELSE IF sorted[k].tool = selected[1]
         THEN add_complementary_above_half(sorted, k + 1, selected)
    ELSE IF Len(selected) + 1 >= 3 THEN Return(Append(selected, sorted[k].tool))
    ELSE add_complementary_above_half(sorted, k + 1, Append(selected, sorted[k].tool))

RECURSIVE add_complementary(_, _, _)
\* the loop "for tool, score in tool_scores[1:]" of select_tools, from
\* position k of the sorted list on; selected_tools[0] on an empty list is
\* an IndexError
add_complementary(sorted, k, selected) ==
    IF k > Len(sorted) THEN Return(selected)
    ELSE IF ~ScoreAbove(sorted[k].score, 60)
         THEN add_complementary(sorted, k + 1, selected)
    ELSE IF selected = <<>> THEN Raise("IndexError")
    ELSE IF sorted[k].tool = selected[1]
         THEN add_complementary(sorted, k + 1, selected)
    ELSE IF Len(selected) + 1 >= 3 THEN Return(Append(selected, sorted[k].tool))
    ELSE add_complementary(sorted, k + 1, Append(selected, sorted[k].tool))

\* the validator appended whether or not it was selected
ensure_validator_appended(chosen) ==
    IF chosen.raised THEN chosen ELSE Return(Append(chosen.value, SYNTAX_VALIDATOR))

\* "Always validate at the end": the validator is appended unless selected
ensure_validator(chosen) ==
    IF chosen.raised THEN chosen
    ELSE IF \E i \in 1..Len(chosen.value) : chosen.value[i] = SYNTAX_VALIDATOR
         THEN chosen
    ELSE Return(Append(chosen.value, SYNTAX_VALIDATOR))

\* the tools that select_tools has chosen by score when it comes to the
\* validator: the top scorer if its score is above 0.5, and the
\* complementary tools
selected_by_score(tp, code, context) ==
    The({ add_complementary(sorted, 2,
              IF ScoreAbove(sorted[1].score, 50) THEN <<sorted[1].tool>> ELSE <<>>) :
          sorted \in {sort_by_score(tool_scores(tp, code, context))} })

\* AgenticToolSelector.select_tools
select_tools(tp, code, context) == ensure_validator(selected_by_score(tp, code, context))

\* AgenticToolSelector._update_tool_performance
update_tool_performance(tp, tool, context, success) ==
    LET key == ToolKey(tool, context)
        old == IF key \in DOMAIN tp THEN tp[key]
               ELSE [attempts |-> 0, successes |-> 0, success_rate |-> <<1, 2>>]
        attempts == old.attempts + 1
        successes == old.successes + (IF success THEN 1 ELSE 0)
        new == [attempts |-> attempts, successes |-> successes,
                success_rate |-> Fraction(successes, attempts)]
    IN  [k \in DOMAIN tp \cup {key} |-> IF k = key THEN new ELSE tp[k]]

\* a pass that hands every tool the code it was given itself
run_tool_on_unchanged_code(tool, current_code, tp, context, faults) ==
    IF tool \in faults
    THEN [result |-> FailedResult(tool, "tool failed"),
          current_code |-> current_code, tp |-> tp]
    ELSE The({ [result |-> [result EXCEPT !.tool_type = Some(tool)],
                current_code |-> current_code,
                tp |-> update_tool_performance(tp, tool, context, result.success)] :
               result \in {execute(tool, current_code)} })

\* one pass of the loop of execute_tools: the tool's result, the code handed
\* to the next tool and the performance table after the update.  faults is
\* the set of tools whose execute raises in this call: the except branch
\* appends the failed result and leaves the code and the table alone.
run_tool(tool, current_code, tp, context, faults) ==
    IF tool \in faults
    THEN [result |-> FailedResult(tool, "tool failed"),
          current_code |-> current_code, tp |-> tp]
    ELSE The({ [result |-> [result EXCEPT !.tool_type = Some(tool)],
                current_code |-> IF result.converted_code # None
                                 THEN result.converted_code[1] ELSE current_code,
                tp |-> update_tool_performance(tp, tool, context, result.success)] :
               result \in {execute(tool, current_code)} })

RECURSIVE run_tools_until_failure(_, _, _, _, _, _, _)
\* the loop with the try around the whole loop: a failed tool ends it
run_tools_until_failure(selected, i, current_code, results, tp, context, faults) ==
    IF i > Len(selected)
    THEN [final_code |-> current_code, tool_results |-> results, tp |-> tp]
    ELSE IF selected[i] \in faults
    THEN [final_code |-> current_code,
          tool_results |-> Append(results, FailedResult(selected[i], "tool failed")),
          tp |-> tp]
    ELSE The({ run_tools_until_failure(selected, i + 1, step.current_code,
                                       Append(results, step.result), step.tp, context,
                                       faults) :
               step \in {run_tool(selected[i], current_code, tp, context, faults)} })

RECURSIVE run_tools(_, _, _, _, _, _, _)
\* the loop of execute_tools from the i-th selected tool on
run_tools(selected, i, current_code, results, tp, context, faults) ==
    IF i > Len(selected)
    THEN [final_code |-> current_code, tool_results |-> results, tp |-> tp]
    ELSE The({ run_tools(selected, i + 1, step.current_code,
                         Append(results, step.result), step.tp, context, faults) :
               step \in {run_tool(selected[i], current_code, tp, context, faults)} })

\* the dict execute_tools returns
tool_results_dict(r, tools_used) ==
    [final_code |-> r.final_code,
     tool_results |-> r.tool_results,
     tools_used |-> tools_used,
     overall_success |-> \A j \in 1..Len(r.tool_results) : r.tool_results[j].success]

\* AgenticToolSelector.execute_tools when the execute of the tools in faults
\* raises: what it returns or raises (out) and the performance table after
\* it (tp)
execute_tools_with_faults(tp, code, context, faults) ==
    The({ IF selected.raised THEN [out |-> selected, tp |-> tp]
          ELSE The({ [out |-> Return(tool_results_dict(r, Len(selected.value))),
                      tp |-> r.tp] :
                     r \in {run_tools(selected.value, 1, code, <<>>, tp, context,
                                      faults)} }) :
          selected \in {select_tools(tp, code, context)} })

\* AgenticToolSelector.execute_tools with the four registered tools, none of
\* which raises on a text
execute_tools(tp, code, context) == execute_tools_with_faults(tp, code, context, {})

\* enhanced_context = {**context.__dict__, "tool_insights": tool_results}
EnhancedContext(context, tool_results) ==
    [class |-> "dict",
     code_complexity |-> context.code_complexity,
     has_custom_commands |-> context.has_custom_commands,
     has_api_calls |-> context.has_api_calls,
     has_form_interactions |-> context.has_form_interactions,
     test_count |-> context.test_count,
     previous_attempts |-> context.previous_attempts,
     success_rate |-> context.success_rate,
     tool_insights |-> tool_results]

RECURSIVE suggestion_override(_, _)
\* the loop of _decide_strategy_with_tools over tool_results from the i-th
\* on: the strategy it returns, or None when the loop ends.  It compares
\* result["tool_type"], which execute_tools set to the enum's value
\* ("pattern_analyzer"), with the string "PATTERN_ANALYZER".
suggestion_override(results, i) ==
    IF i > Len(results) THEN None
    ELSE LET result == results[i]
         IN  IF result.tool_type = Some("PATTERN_ANALYZER")
                  /\ result.suggested_strategy = Some("api_testing_focused")
             THEN Some(API_TESTING)
             ELSE IF result.tool_type = Some("PATTERN_ANALYZER")
                  /\ result.suggested_strategy = Some("custom_command_heavy")
             THEN Some(CUSTOM_COMMANDS)
             ELSE suggestion_override(results, i + 1)

\* EnhancedAgenticConverter._decide_strategy_with_tools: the fallback hands
\* the dict enhanced_context to _decide_strategy
decide_strategy_with_tools(enhanced_context) ==
    LET override == suggestion_override(enhanced_context.tool_insights.tool_results, 1)
    IN  IF override # None THEN Return(override[1])
        ELSE decide_strategy(enhanced_context)

\* len(AgenticConverter._create_conversion_plan(context, strategy))
plan_steps(strategy) ==
    IF strategy \in {CUSTOM_COMMANDS, API_TESTING, FORM_HEAVY} THEN 6 ELSE 4

\* A ConversionResult
ConversionResult(success, code, confidence, strategy_used, issues, metadata) ==
    [success |-> success, code |-> code, confidence |-> confidence,
     strategy_used |-> strategy_used, issues |-> issues, metadata |-> metadata]

\* The oracle's answer to a conversion prompt: text (fence tells whether the
\* code is wrapped in a ``` block; inner is the code) or an exception.
OracleText(fence, inner) == [kind |-> "text", fence |-> fence, inner |-> inner]

\* the clean-up of the answer: the inside of the first ``` block, stripped
clean_up(response) == response.inner

\* GroqLLM.__call__ on what client.chat.completions.create does: the
\* content, or, when the request raises, the text "Error in LLM
\* generation: ..." as an ordinary return value
GroqLLM_call(transport) ==
    IF transport.kind = "raise"
    THEN OracleText("", "Error in LLM generation: OracleError")
    ELSE transport

\* self.llm(prompt): the GroqLLM wrapper, or a callable that lets the
\* exception of the request through
llm_call(llm, transport) ==
    IF llm = "GroqLLM" THEN GroqLLM_call(transport) ELSE transport

\* AgenticConverter._execute_plan; the strategy is decided again from context
execute_plan(plan, context, response) ==
    LET strategy == decide_strategy(context)
    IN  IF strategy.raised THEN strategy
        ELSE IF response.kind = "raise"
        THEN Return(ConversionResult(FALSE, "// Error during conversion: OracleError", 0,
                        strategy.value, <<"OracleError">>,
                        [error |-> "OracleError"]))
        ELSE Return(ConversionResult(TRUE, clean_up(response), 85, strategy.value, <<>>,
                        [plan_steps |-> plan, agentic |-> TRUE]))

\* AgenticConverter._update_memory; avg_confidence is the exact fraction of
\* hundredths
update_memory(mem, context, strategy, result) ==
    LET key == <<strategy, context.code_complexity, context.test_count>>
        old == IF key \in DOMAIN mem THEN mem[key]
               ELSE [attempts |-> 0, successes |-> 0, avg_confidence |-> <<0, 1>>,
                     common_issues |-> <<>>]
        attempts == old.attempts + 1
        new_issues == SelectSeq(result.issues,
                          LAMBDA issue : \A j \in DOMAIN old.common_issues :
                                            old.common_issues[j] # issue)
        new == [attempts |-> attempts,
                successes |-> old.successes + (IF result.success THEN 1 ELSE 0),
                avg_confidence |->
                    Fraction(old.avg_confidence[1] * (attempts - 1)
                               + result.confidence * old.avg_confidence[2],
                             old.avg_confidence[2] * attempts),
                common_issues |-> old.common_issues \o new_issues]
    IN  [k \in DOMAIN mem \cup {key} |-> IF k = key THEN new ELSE mem[k]]

\* AgenticConverter.convert on the memory mem: what it returns or raises
\* (out), the context and the strategy (None when not reached) and the
\* memory after it
AgenticConverter_convert(mem, code, analysis, conversion) ==
    The({ IF context.raised
          THEN [out |-> context, context |-> context, strategy |-> None, memory |-> mem]
          ELSE The({ The({ [out |-> result, context |-> context,
                            strategy |-> Some(strategy),
                            memory |-> update_memory(mem, context.value, strategy.value,
                                                     result.value)] :
                           result \in {execute_plan(plan_steps(strategy.value),
                                                    context.value, conversion)} }) :
                     strategy \in {decide_strategy(context.value)} }) :
          context \in {analyze_code(code, analysis)} })

\* result.metadata[...] = ... at the end of EnhancedAgenticConverter.convert
with_tool_metadata(result, insights) ==
    [result EXCEPT !.metadata = [base |-> @, tools_used |-> insights.tools_used,
                                 enhanced_agentic |-> TRUE]]

\* EnhancedAgenticConverter.convert from the strategy decision on
convert_with_strategy(context, tools, strategy, conversion) ==
    IF strategy.raised
    THEN [out |-> strategy, context |-> Return(context), tools |-> Some(tools.out),
          strategy |-> Some(strategy), tp |-> tools.tp]
    ELSE The({ [out |-> IF result.raised THEN result
                        ELSE Return(with_tool_metadata(result.value, tools.out.value)),
                context |-> Return(context), tools |-> Some(tools.out),
                strategy |-> Some(strategy), tp |-> tools.tp] :
               result \in {execute_plan(plan_steps(strategy.value), context,
                                         conversion)} })

\* EnhancedAgenticConverter.convert from the tool run on
convert_with_tools(context, tools, conversion) ==
    IF tools.out.raised
    THEN [out |-> tools.out, context |-> Return(context), tools |-> Some(tools.out),
          strategy |-> None, tp |-> tools.tp]
    ELSE The({ convert_with_strategy(context, tools, strategy, conversion) :
               strategy \in {decide_strategy_with_tools(
                                EnhancedContext(context, tools.out.value))} })

\* EnhancedAgenticConverter.convert: what it returns or raises (out), the
\* intermediate values (context, tools, strategy; None when not reached) and
\* the tool performance table after it (tp)
EnhancedAgenticConverter_convert(tp, code, analysis, conversion) ==
    The({ IF context.raised
          THEN [out |-> context, context |-> context, tools |-> None,
                strategy |-> None, tp |-> tp]
          ELSE The({ convert_with_tools(context.value, tools, conversion) :
                     tools \in {execute_tools(tp, code, AsDict(context.value))} }) :
          context \in {analyze_code(code, analysis)} })

---------------------------------------------------------------------------
(* learning_system.py: the case store, the strategy statistics, the        *)
(* pattern matcher and the learning converter.  The wall-clock fields      *)
(* (execution_time, timestamp, last_updated, avg_execution_time) are read  *)
(* by no operation of the model and are left out.                          *)

\* hashlib.md5(input_code.encode()).hexdigest()[:16], tabulated for the
\* input texts of the model
md5_16(code) ==
    CASE code = <<"">> ->
           "d41d8cd98f00b204"
      [] code = <<"cy.visit('/home')", "cy.get('#user').type('bob')">> ->
           "9764ca5c5903c01d"
      [] code = <<"cy.intercept('GET', '/api/users')", "cy.get('#msg').should('contain', 'ok')">> ->
           "79f5b2ce51b7f4cb"
      [] code = <<"cy.login('admin')", "cy.customLogin()", "cy.login('admin')">> ->
           "8d05bc404e413888"
      [] code = <<"describe('suite', () => {", "  it('works', () => {", "cy.click('#go')">> ->
           "190427fd76fbbf09"
      [] code = Pad(<<"cy.customLogin()">>, 80) ->
           "2dd825915faec3f1"
      [] code = <<"cy.get('#user').type('bob')", "cy.click('#go')">> ->
           "0cda6ec35475b782"
      [] code = <<"cy.get('#msg').should('contain', 'ok')">> ->
           "a00adc4ebb6652fb"
      [] code = <<"cy.visit('/home')">> ->
           "655cdcebddc08a58"

\* hashlib.md5(json.dumps(context, sort_keys=True).encode()).hexdigest()[:16],
\* tabulated for the context dicts of the model (previous_attempts is [],
\* success_rate is 0.0 in all of them)
context_hash(context) ==
    LET c == <<context.code_complexity, context.has_custom_commands,
               context.has_api_calls, context.has_form_interactions,
               context.test_count>>
    IN  CASE c = <<0, FALSE, FALSE, FALSE, 0>> -> "2bae85765da880c1"
          [] c = <<0, FALSE, FALSE, FALSE, 1>> -> "38d34814513a8f4b"
          [] c = <<0, FALSE, FALSE, TRUE, 0>> -> "7599f348572f91c6"
          [] c = <<0, FALSE, FALSE, TRUE, 1>> -> "ce13ba15aed38187"
          [] c = <<0, FALSE, TRUE, FALSE, 0>> -> "b22217ad91f65e07"
          [] c = <<0, TRUE, FALSE, FALSE, 0>> -> "f6aa397875faefa5"
          [] c = <<3, TRUE, FALSE, TRUE, 4>> -> "888ad126e4eebd4c"
          [] c = <<5, FALSE, FALSE, FALSE, 1>> -> "139d4186fc744a9d"
          [] c = <<8, FALSE, TRUE, FALSE, 2>> -> "76df7a18709f8a8b"
          [] c = <<8, TRUE, FALSE, FALSE, 0>> -> "5394f9aa0950ea53"

\* A ConversionCase; feedback_score defaults to None
ConversionCase(input_hash, input_code, output_code, strategy_used, success, confidence, context) ==
    [input_hash |-> input_hash, input_code |-> input_code,
     output_code |-> output_code, strategy_used |-> strategy_used,
     success |-> success, confidence |-> confidence, context |-> context,
     feedback_score |-> None]

\* INSERT without the OR REPLACE clause
store_conversion_case_insert(cases, case) == Append(cases, case)

\* a store that updates the row of a known input in place and leaves its
\* feedback score alone
store_conversion_case_keeping_feedback(cases, case) ==
    IF \E k \in DOMAIN cases : cases[k].input_hash = case.input_hash
    THEN [k \in DOMAIN cases |->
             IF cases[k].input_hash = case.input_hash
             THEN [case EXCEPT !.feedback_score = cases[k].feedback_score]
             ELSE cases[k]]
    ELSE Append(cases, case)

\* MemoryStore.store_conversion_case: INSERT OR REPLACE on a table whose
\* input_hash column is UNIQUE deletes the row with that hash and appends
\* the new row (rows are in id order)
store_conversion_case(cases, case) ==
    Append(SelectSeq(cases, LAMBDA row : row.input_hash # case.input_hash), case)

\* the running mean taken as (avg + confidence) / 2
update_strategy_performance_halved(perf, strategy, context, success, confidence) ==
    LET key == <<strategy, context_hash(context)>>
        hit == IF success THEN 1 ELSE 0
    IN  IF key \in DOMAIN perf
        THEN [perf EXCEPT ![key] =
                [attempts |-> @.attempts + 1,
                 successes |-> @.successes + hit,
                 avg_confidence |->
                     Fraction(@.avg_confidence[1] + confidence * @.avg_confidence[2],
                              @.avg_confidence[2] * 2)]]
        ELSE [k \in DOMAIN perf \cup {key} |->
                IF k = key
                THEN [attempts |-> 1, successes |-> hit,
                      avg_confidence |-> Fraction(confidence, 1)]
                ELSE perf[k]]

\* MemoryStore.update_strategy_performance on the table as a function
\* <<strategy, context_hash>> -> row; avg_confidence is an exact fraction
update_strategy_performance(perf, strategy, context, success, confidence) ==
    LET key == <<strategy, context_hash(context)>>
        hit == IF success THEN 1 ELSE 0
    IN  IF key \in DOMAIN perf
        THEN [perf EXCEPT ![key] =
                [attempts |-> @.attempts + 1,
                 successes |-> @.successes + hit,
                 avg_confidence |->
                     Fraction(@.avg_confidence[1] * @.attempts
                                + confidence * @.avg_confidence[2],
                              @.avg_confidence[2] * (@.attempts + 1))]]
        ELSE [k \in DOMAIN perf \cup {key} |->
                IF k = key
                THEN [attempts |-> 1, successes |-> hit,
                      avg_confidence |-> Fraction(confidence, 1)]
                ELSE perf[k]]

\* A LearningPattern: input_pattern is the list of steps that '->' joins,
\* success_rate and avg_confidence are in hundredths, context_conditions is
\* a function from keys to values
LearningPattern(pattern_id, input_pattern, success_rate, usage_count, avg_confidence, context_conditions) ==
    [pattern_id |-> pattern_id, input_pattern |-> input_pattern,
     success_rate |-> success_rate, usage_count |-> usage_count,
     avg_confidence |-> avg_confidence,
     context_conditions |-> context_conditions]

\* the text of a context_conditions column: the JSON of a dict of
\* conditions, or text that json.loads rejects
JsonText(conditions) == [json |-> TRUE, value |-> conditions]

MalformedJson == [json |-> FALSE]

\* json.loads(row[6])
json_loads(text) ==
    IF text.json THEN Return(text.value) ELSE Raise("JSONDecodeError")

\* the text of a last_updated column: an ISO date or not
IsoText(valid) == [iso |-> valid]

\* datetime.fromisoformat(row[7]); the date itself is not kept
fromisoformat(text) == IF text.iso THEN Return("datetime") ELSE Raise("ValueError")

\* a row of the learned_patterns table
PatternRow(pattern_id, input_pattern, success_rate, usage_count, avg_confidence, context_conditions, last_updated) ==
    [pattern_id |-> pattern_id, input_pattern |-> input_pattern,
     success_rate |-> success_rate, usage_count |-> usage_count,
     avg_confidence |-> avg_confidence, context_conditions |-> context_conditions,
     last_updated |-> last_updated]

\* the LearningPattern(...) expression of _load_patterns for one row: the
\* arguments are evaluated in order, and the first that raises ends it
pattern_of_row(row) ==
    The({ IF conditions.raised THEN conditions
          ELSE IF fromisoformat(row.last_updated).raised
               THEN fromisoformat(row.last_updated)
          ELSE Return(LearningPattern(row.pattern_id, row.input_pattern,
                                      row.success_rate, row.usage_count,
                                      row.avg_confidence, conditions.value)) :
          conditions \in {json_loads(row.context_conditions)} })

RECURSIVE load_patterns(_, _, _)
\* PatternLearner._load_patterns from the i-th fetched row on: the loop has
\* no handler, so an exception of a row leaves the method
load_patterns(rows, i, patterns) ==
    IF i > Len(rows) THEN Return(patterns)
    ELSE The({ IF pattern.raised THEN pattern
               ELSE load_patterns(rows, i + 1, Append(patterns, pattern.value)) :
               pattern \in {pattern_of_row(rows[i])} })

\* the step find_matching_pattern appends for a line, if any
line_pattern(line) ==
    LET has == LineFacts(line).has
    IN  IF "cy." \notin has THEN <<>>
        ELSE IF "cy.get(" \in has THEN <<"GET_ELEMENT">>
        ELSE IF "cy.type(" \in has THEN <<"TYPE_TEXT">>
        ELSE IF "cy.click(" \in has THEN <<"CLICK_ELEMENT">>
        ELSE IF "cy.should(" \in has THEN <<"ASSERTION">>
        ELSE <<>>

RECURSIVE key_patterns(_, _)
\* key_patterns of find_matching_pattern, from line i on
key_patterns(code, i) ==
    IF i > Len(code) THEN <<>>
    ELSE line_pattern(code[i]) \o key_patterns(code, i + 1)

\* set('->'.join(steps).split('->')): ''.split('->') is ['']
step_set(pattern) ==
    IF pattern = <<>> THEN {""} ELSE {pattern[i] : i \in DOMAIN pattern}

\* context.get(key) == value, for the dict of a ConversionContext
condition_holds(context, key, value) ==
    key \in DOMAIN context \ {"class"} /\ context[key] = value

\* the score without the context term
calculate_pattern_match_score_no_context(input_pattern, learned_pattern, context) ==
    Fraction(7 * Cardinality(step_set(input_pattern)
                                \cap step_set(learned_pattern.input_pattern)),
             10 * Cardinality(step_set(input_pattern)
                                \cup step_set(learned_pattern.input_pattern)))

\* the score with a pattern that states no condition counted as matching
\* every context
calculate_pattern_match_score_vacuous(input_pattern, learned_pattern, context) ==
    LET input_steps == step_set(input_pattern)
        learned_steps == step_set(learned_pattern.input_pattern)
        intersection == Cardinality(input_steps \cap learned_steps)
        union == Cardinality(input_steps \cup learned_steps)
        conditions == learned_pattern.context_conditions
        total_conditions == Cardinality(DOMAIN conditions)
        matching_conditions ==
            Cardinality({key \in DOMAIN conditions :
                            condition_holds(context, key, conditions[key])})
    IN  IF total_conditions = 0 THEN Fraction(7 * intersection + 3 * union, 10 * union)
        ELSE Fraction(7 * intersection * total_conditions
                        + 3 * matching_conditions * union,
                      10 * union * total_conditions)

\* PatternLearner._calculate_pattern_match_score, as the exact fraction of
\* 0.7 * |intersection| / |union| + 0.3 * matching / total
calculate_pattern_match_score(input_pattern, learned_pattern, context) ==
    LET input_steps == step_set(input_pattern)
        learned_steps == step_set(learned_pattern.input_pattern)
        intersection == Cardinality(input_steps \cap learned_steps)
        union == Cardinality(input_steps \cup learned_steps)
        conditions == learned_pattern.context_conditions
        total_conditions == Cardinality(DOMAIN conditions)
        matching_conditions ==
            Cardinality({key \in DOMAIN conditions :
                            condition_holds(context, key, conditions[key])})
    IN  IF input_steps = {} \/ learned_steps = {} THEN <<0, 1>>
        ELSE IF total_conditions = 0 THEN Fraction(7 * intersection, 10 * union)
        ELSE Fraction(7 * intersection * total_conditions
                        + 3 * matching_conditions * union,
                      10 * union * total_conditions)

RECURSIVE best_match_from_first(_, _, _, _, _, _)
\* the loop without the comparison to best_score: the first pattern above
\* the threshold is kept
best_match_from_first(patterns, i, input_pattern, context, best_match, best_score) ==
    IF i > Len(patterns) THEN best_match
    ELSE IF best_match = None
            /\ ScoreAbove(calculate_pattern_match_score(input_pattern, patterns[i],
                                                        context), 70)
         THEN best_match_from_first(patterns, i + 1, input_pattern, context,
                                    Some(patterns[i]), best_score)
    ELSE best_match_from_first(patterns, i + 1, input_pattern, context,
                               best_match, best_score)

RECURSIVE best_match_from(_, _, _, _, _, _)
\* the loop of find_matching_pattern over the patterns from the i-th on
best_match_from(patterns, i, input_pattern, context, best_match, best_score) ==
    IF i > Len(patterns) THEN best_match
    ELSE The({ IF ScoreGreater(score, best_score) /\ ScoreAbove(score, 70)
               THEN best_match_from(patterns, i + 1, input_pattern, context,
                                    Some(patterns[i]), score)
               ELSE best_match_from(patterns, i + 1, input_pattern, context,
                                    best_match, best_score) :
               score \in {calculate_pattern_match_score(input_pattern,
                                                        patterns[i], context)} })

\* PatternLearner.find_matching_pattern: the pattern or None
find_matching_pattern(patterns, input_code, context) ==
    best_match_from(patterns, 1, key_patterns(input_code, 1), context, None, <<0, 1>>)

\* the UPDATE without its WHERE clause
provide_feedback_everywhere(cases, input_hash, feedback_score) ==
    [k \in DOMAIN cases |-> [cases[k] EXCEPT !.feedback_score = Some(feedback_score)]]

\* LearningAgenticConverter.provide_feedback: UPDATE conversion_cases SET
\* feedback_score = ? WHERE input_hash = ?
provide_feedback(cases, input_hash, feedback_score) ==
    [k \in DOMAIN cases |->
        IF cases[k].input_hash = input_hash
        THEN [cases[k] EXCEPT !.feedback_score = Some(feedback_score)]
        ELSE cases[k]]

\* LearningAgenticConverter._convert_with_pattern, the try-branch: the
\* result, or None when the oracle raises (the except-branch then calls
\* super().convert)
pattern_guided_result(pattern, answer) ==
    IF answer.kind = "raise" THEN None
    ELSE Some(ConversionResult(TRUE, clean_up(answer),
                 IF pattern.avg_confidence + 10 < 95
                 THEN pattern.avg_confidence + 10 ELSE 95,
                 SIMPLE, <<>>, [used_pattern |-> pattern.pattern_id]))

\* pattern.usage_count += 1, on the object that learned_patterns holds
count_usage(patterns, pattern) ==
    [i \in DOMAIN patterns |->
        IF patterns[i].pattern_id = pattern.pattern_id
        THEN [patterns[i] EXCEPT !.usage_count = @ + 1]
        ELSE patterns[i]]

\* the oracle's answers during one convert: to the analysis prompt, to the
\* pattern-guided prompt, and to the prompts of super().convert
Oracle(analysis, guided, again, conversion) ==
    [analysis |-> analysis, guided |-> guided, again |-> again,
     conversion |-> conversion]

\* the test with the pattern's success_rate left out
use_pattern_whenever_matched(matching_pattern) == matching_pattern # None

\* "if matching_pattern and matching_pattern.success_rate > 0.8"
use_pattern(matching_pattern) ==
    matching_pattern # None /\ matching_pattern[1].success_rate > 80

\* lines 315-321 of LearningAgenticConverter.convert: the result of the
\* pattern-guided conversion or of super().convert (out), with the tool
\* statistics and the patterns after it; path lists the conversions that
\* were entered, "pattern" for _convert_with_pattern and "standard" for
\* super().convert
obtain_result(s, input_code, matching_pattern, oracle) ==
    IF use_pattern(matching_pattern) /\ oracle.guided.kind # "raise"
    THEN [out |-> Return(pattern_guided_result(matching_pattern[1], oracle.guided)[1]),
          tool_performance |-> s.tool_performance,
          learned_patterns |-> count_usage(s.learned_patterns, matching_pattern[1]),
          path |-> <<"pattern">>]
    ELSE The({ [out |-> r.out, tool_performance |-> r.tp,
                learned_patterns |-> s.learned_patterns,
                path |-> IF use_pattern(matching_pattern)
                         THEN <<"pattern", "standard">> ELSE <<"standard">>] :
               r \in {EnhancedAgenticConverter_convert(s.tool_performance, input_code,
                                                       oracle.again, oracle.conversion)} })

\* result.metadata["learning"] = ...
with_learning_metadata(result, matching_pattern, patterns, conversion_number, input_hash) ==
    [result EXCEPT !.metadata =
        [base |-> @,
         learning |-> [used_learned_pattern |-> matching_pattern # None,
                       pattern_id |-> IF matching_pattern # None
                                      THEN Some(matching_pattern[1].pattern_id)
                                      ELSE None,
                       total_learned_patterns |-> Len(patterns),
                       conversion_number |-> conversion_number,
                       input_hash |-> input_hash]]]

\* history[-n:]
Last(history, n) ==
    SubSeq(history, IF Len(history) > n THEN Len(history) - n + 1 ELSE 1, Len(history))

\* LearningAgenticConverter._trigger_learning: whether it finds at least
\* three successful cases of confidence above 0.7 among the last twenty
enough_to_learn(history) ==
    Len(SelectSeq(Last(history, 20),
                  LAMBDA case : case.success /\ case.confidence > 70)) >= 3

\* a learning step that makes a pattern of the cases it found
after_learning_synthesizing(patterns, history) ==
    IF Len(history) % 10 = 0 /\ enough_to_learn(history)
    THEN Append(patterns,
                LearningPattern("learned", <<"GET_ELEMENT">>, 100, 0, 85, <<>>))
    ELSE patterns

\* "if len(self.conversion_history) % 10 == 0: self._trigger_learning()":
\* the patterns after it; both branches of _trigger_learning only print
after_learning(patterns, history) == patterns

\* lines 323-363 of LearningAgenticConverter.convert: the case is stored and
\* appended to the history, the strategy statistics are updated, the
\* learning step is run
record_conversion(s, input_code, context, matching_pattern, obtained) ==
    The({ [out |-> Return(with_learning_metadata(obtained.out.value, matching_pattern,
                              after_learning(obtained.learned_patterns,
                                  Append(s.conversion_history, conversion_case)),
                              Len(s.conversion_history) + 1, conversion_case.input_hash)),
           tool_performance |-> obtained.tool_performance,
           learned_patterns |-> after_learning(obtained.learned_patterns,
                                    Append(s.conversion_history, conversion_case)),
           conversion_history |-> Append(s.conversion_history, conversion_case),
           conversion_cases |-> store_conversion_case(s.conversion_cases, conversion_case),
           strategy_performance |->
               update_strategy_performance(s.strategy_performance,
                   conversion_case.strategy_used, conversion_case.context,
                   conversion_case.success, conversion_case.confidence),
           stored |-> <<conversion_case>>,
           matching_pattern |-> matching_pattern, path |-> obtained.path] :
          conversion_case \in
              {ConversionCase(md5_16(input_code), input_code, obtained.out.value.code,
                              obtained.out.value.strategy_used, obtained.out.value.success,
                              obtained.out.value.confidence, AsDict(context))} })

\* a convert that raises: only the tool statistics and the patterns can
\* have changed
raised_conversion(s, matching_pattern, obtained) ==
    [out |-> obtained.out,
     tool_performance |-> obtained.tool_performance,
     learned_patterns |-> obtained.learned_patterns,
     conversion_history |-> s.conversion_history,
     conversion_cases |-> s.conversion_cases,
     strategy_performance |-> s.strategy_performance,
     stored |-> <<>>,
     matching_pattern |-> matching_pattern, path |-> obtained.path]

\* LearningAgenticConverter.convert from the pattern lookup on
convert_with_context(s, input_code, context, oracle) ==
    The({ The({ IF obtained.out.raised
                THEN raised_conversion(s, matching_pattern, obtained)
                ELSE record_conversion(s, input_code, context, matching_pattern,
                                       obtained) :
                obtained \in {obtain_result(s, input_code, matching_pattern, oracle)} }) :
          matching_pattern \in {find_matching_pattern(s.learned_patterns, input_code,
                                                      AsDict(context))} })

\* LearningAgenticConverter.convert on the state s: what it returns or
\* raises (out), the state after it, and the case it stored (stored, a list
\* of at most one case)
LearningAgenticConverter_convert(s, input_code, oracle) ==
    The({ IF context.raised
          THEN raised_conversion(s, None,
                                 [out |-> context,
                                  tool_performance |-> s.tool_performance,
                                  learned_patterns |-> s.learned_patterns,
                                  path |-> <<>>])
          ELSE convert_with_context(s, input_code, context.value, oracle) :
          context \in {analyze_code(input_code, oracle.analysis)} })

---------------------------------------------------------------------------
(* reflection_system.py: the reflection triggers *)

FAILURE_THRESHOLD == "failure_threshold"
PERIODIC == "periodic"
CONFIDENCE_DROP == "confidence_drop"
USER_FEEDBACK == "user_feedback"
PATTERN_MISMATCH == "pattern_mismatch"

\* the sum of the cases' confidences (hundredths)
RECURSIVE sum_confidence(_, _)
sum_confidence(cases, i) ==
    IF i > Len(cases) THEN 0 ELSE cases[i].confidence + sum_confidence(cases, i + 1)

\* the failures counted in the last 9 cases
count_recent_failures_short(history) ==
    LET recent == Last(history, 9)
    IN  Cardinality({i \in DOMAIN recent : ~recent[i].success})

\* SelfReflectionEngine._count_recent_failures
count_recent_failures(history) ==
    LET recent == Last(history, 10)
    IN  Cardinality({i \in DOMAIN recent : ~recent[i].success})

\* SelfReflectionEngine._analyze_confidence_trend, in thousandths: both
\* averages are over 10 cases, so recent_avg - older_avg is a tenth of the
\* difference of the sums
analyze_confidence_trend(history) ==
    IF Len(history) < 20 THEN 0
    ELSE sum_confidence(Last(history, 10), 1)
            - sum_confidence(SubSeq(history, Len(history) - 19, Len(history) - 10), 1)

\* SelfReflectionEngine._check_negative_feedback
check_negative_feedback(history) ==
    LET recent == Last(history, 10)
    IN  Cardinality({i \in DOMAIN recent :
                        /\ recent[i].feedback_score # None
                        /\ recent[i].feedback_score[1] < 3}) >= 2

\* pairs <<older, recent>> of confidences (hundredths) that differ by 0.2 for
\* which Python's binary floating point puts the mean of ten cases at
\* recent minus the mean of ten cases at older at -0.20000000000000007,
\* below -0.2; for the other pairs at multiples of 0.05 it is -0.2 or
\* -0.19999999999999996
RoundedBelow ==
    { <<35, 15>>, <<45, 25>>, <<50, 30>>, <<65, 45>>, <<70, 50>>, <<75, 55>>,
      <<80, 60>>, <<90, 70>>, <<100, 80>> }

\* the ten cases all have the confidence c
Uniform(cases, c) == \A i \in DOMAIN cases : cases[i].confidence = c

\* confidence_trend < -0.2 as should_reflect evaluates it, in floating
\* point: the exact comparison, except where the exact difference is -0.2
\* and the computed one falls below it (known for halves of equal
\* confidences at multiples of 0.05)
trend_below_threshold(history) ==
    \/ analyze_confidence_trend(history) < -200
    \/ /\ Len(history) >= 20
       /\ analyze_confidence_trend(history) = -200
       /\ \E pair \in RoundedBelow :
             /\ Uniform(SubSeq(history, Len(history) - 19, Len(history) - 10), pair[1])
             /\ Uniform(Last(history, 10), pair[2])

\* should_reflect with the periodic check ahead of the confidence check
should_reflect_periodic_first(history) ==
    IF count_recent_failures(history) >= 3 THEN <<TRUE, Some(FAILURE_THRESHOLD)>>
    ELSE IF Len(history) % 50 = 0 /\ Len(history) > 0 THEN <<TRUE, Some(PERIODIC)>>
    ELSE IF trend_below_threshold(history) THEN <<TRUE, Some(CONFIDENCE_DROP)>>
    ELSE IF check_negative_feedback(history) THEN <<TRUE, Some(USER_FEEDBACK)>>
    ELSE <<FALSE, None>>

\* SelfReflectionEngine.should_reflect on converter.conversion_history
should_reflect(history) ==
    IF count_recent_failures(history) >= 3 THEN <<TRUE, Some(FAILURE_THRESHOLD)>>
    ELSE IF trend_below_threshold(history) THEN <<TRUE, Some(CONFIDENCE_DROP)>>
    ELSE IF Len(history) % 50 = 0 /\ Len(history) > 0 THEN <<TRUE, Some(PERIODIC)>>
    ELSE IF check_negative_feedback(history) THEN <<TRUE, Some(USER_FEEDBACK)>>
    ELSE <<FALSE, None>>

---------------------------------------------------------------------------
(* reflection_system.py: a reflection pass.  Rates are exact fractions;    *)
(* the time stamps and the execution times, which no insight reads, are    *)
(* left out of the records.                                                *)

\* the strategies of the cases from position i on, in order of first appearance
RECURSIVE strategies_seen(_, _, _)
strategies_seen(cases, i, seen) ==
    IF i > Len(cases) THEN seen
    ELSE strategies_seen(cases, i + 1,
            IF \E j \in DOMAIN seen : seen[j] = cases[i].strategy_used
            THEN seen ELSE Append(seen, cases[i].strategy_used))

\* the sum of the feedback scores that are not None
RECURSIVE sum_feedback(_, _)
sum_feedback(cases, i) ==
    IF i > Len(cases) THEN 0
    ELSE (IF cases[i].feedback_score = None THEN 0 ELSE cases[i].feedback_score[1])
            + sum_feedback(cases, i + 1)

\* strategy_effectiveness: the dict as its items in insertion order
strategy_effectiveness(recent_history) ==
    LET seen == strategies_seen(recent_history, 1, <<>>)
        of(strategy) == {i \in DOMAIN recent_history :
                            recent_history[i].strategy_used = strategy}
    IN  [k \in DOMAIN seen |->
            <<seen[k], Fraction(Cardinality({i \in of(seen[k]) : recent_history[i].success}),
                                Cardinality(of(seen[k])))>>]

\* PerformanceMetrics(...); a ConversionCase has no metadata attribute, so
\* no case counts as a pattern conversion
PerformanceMetrics(success_rate, avg_confidence, pattern_usage_rate, user_satisfaction, effectiveness, recent_failures, improvement_trend) ==
    [success_rate |-> success_rate, avg_confidence |-> avg_confidence,
     pattern_usage_rate |-> pattern_usage_rate, user_satisfaction |-> user_satisfaction,
     strategy_effectiveness |-> effectiveness, recent_failures |-> recent_failures,
     improvement_trend |-> improvement_trend]

\* SelfReflectionEngine._gather_performance_metrics
gather_performance_metrics(history) ==
    LET recent_history == Last(history, 20)
        n == Len(recent_history)
        rated == {i \in DOMAIN recent_history : recent_history[i].feedback_score # None}
        failed == SelectSeq(recent_history, LAMBDA case : ~case.success)
    IN  IF n = 0
        THEN PerformanceMetrics(<<0, 1>>, <<0, 1>>, <<0, 1>>, <<0, 1>>, <<>>, <<>>,
                                "insufficient_data")
        ELSE PerformanceMetrics(
                Fraction(Cardinality({i \in DOMAIN recent_history :
                                         recent_history[i].success}), n),
                Fraction(sum_confidence(recent_history, 1), n),
                Fraction(0, n),
                IF rated = {} THEN <<0, 1>>
                ELSE Fraction(sum_feedback(recent_history, 1), Cardinality(rated)),
                strategy_effectiveness(recent_history),
                [i \in DOMAIN failed |-> failed[i].input_hash],
                "stable")

\* a < b for fractions with positive denominators
RateBelow(a, b) == a[1] * b[2] < b[1] * a[2]

\* max(items, key=rate): the first item with the greatest rate
best_of(items) ==
    items[CHOOSE k \in DOMAIN items :
            /\ \A j \in DOMAIN items : ~RateBelow(items[k][2], items[j][2])
            /\ \A j \in 1..(k - 1) : RateBelow(items[j][2], items[k][2])]

\* min(items, key=rate): the first item with the least rate
worst_of(items) ==
    items[CHOOSE k \in DOMAIN items :
            /\ \A j \in DOMAIN items : ~RateBelow(items[j][2], items[k][2])
            /\ \A j \in 1..(k - 1) : RateBelow(items[k][2], items[j][2])]

\* ReflectionInsight(...): the description is kept as the value it prints
ReflectionInsight(insight_type, described, suggested_action, confidence, priority) ==
    [insight_type |-> insight_type, described |-> described,
     suggested_action |-> suggested_action, confidence |-> confidence,
     priority |-> priority]

\* SelfReflectionEngine._reflect_on_strategy_effectiveness
reflect_on_strategy_effectiveness(metrics) ==
    IF metrics.strategy_effectiveness = <<>> THEN <<>>
    ELSE LET best_strategy == best_of(metrics.strategy_effectiveness)
             worst_strategy == worst_of(metrics.strategy_effectiveness)
         IN  (IF RateBelow(<<8, 10>>, best_strategy[2])
              THEN << ReflectionInsight("strategy_success", best_strategy,
                          <<"Increase usage of strategy", best_strategy[1]>>, 90, 4) >>
              ELSE <<>>)
             \o (IF RateBelow(worst_strategy[2], <<5, 10>>)
                 THEN << ReflectionInsight("strategy_failure", worst_strategy,
                             <<"Revise decision criteria for strategy",
                               worst_strategy[1]>>, 80, 5) >>
                 ELSE <<>>)

\* SelfReflectionEngine._reflect_on_pattern_usage
reflect_on_pattern_usage(metrics) ==
    IF RateBelow(metrics.pattern_usage_rate, <<2, 10>>)
    THEN << ReflectionInsight("low_pattern_usage", metrics.pattern_usage_rate,
                "Improve pattern extraction and matching algorithms", 70, 3) >>
    ELSE IF RateBelow(<<6, 10>>, metrics.pattern_usage_rate)
            /\ RateBelow(<<8, 10>>, metrics.success_rate)
    THEN << ReflectionInsight("effective_pattern_learning", metrics.pattern_usage_rate,
                "Continue current pattern learning approach and expand pattern database",
                90, 2) >>
    ELSE <<>>

\* SelfReflectionEngine._reflect_on_failure_patterns
reflect_on_failure_patterns(metrics) ==
    IF Len(metrics.recent_failures) >= 3
    THEN << ReflectionInsight("failure_pattern", Len(metrics.recent_failures),
                "Analyze failure contexts and develop specialized handling", 80, 5) >>
    ELSE <<>>

\* an engine that takes a satisfaction of 0 to mean that nobody gave feedback
reflect_on_user_feedback_given(metrics) ==
    IF metrics.user_satisfaction[1] = 0 THEN <<>>
    ELSE IF RateBelow(metrics.user_satisfaction, <<3, 1>>)
    THEN << ReflectionInsight("low_user_satisfaction", metrics.user_satisfaction,
                "Analyze user feedback patterns and improve output quality", 90, 5) >>
    ELSE <<>>

\* SelfReflectionEngine._reflect_on_user_feedback
reflect_on_user_feedback(metrics) ==
    IF RateBelow(metrics.user_satisfaction, <<3, 1>>)
    THEN << ReflectionInsight("low_user_satisfaction", metrics.user_satisfaction,
                "Analyze user feedback patterns and improve output quality", 90, 5) >>
    ELSE IF RateBelow(<<4, 1>>, metrics.user_satisfaction)
    THEN << ReflectionInsight("high_user_satisfaction", metrics.user_satisfaction,
                "Maintain current quality standards and identify what users appreciate most",
                90, 2) >>
    ELSE <<>>

\* SelfReflectionEngine._reflect_on_learning_progress
reflect_on_learning_progress(metrics) ==
    IF metrics.improvement_trend = "declining"
    THEN << ReflectionInsight("declining_performance", metrics.improvement_trend,
                "Review recent changes and consider reverting problematic updates",
                80, 5) >>
    ELSE IF metrics.improvement_trend = "improving"
    THEN << ReflectionInsight("positive_learning", metrics.improvement_trend,
                "Continue current learning approach and accelerate improvement", 90, 3) >>
    ELSE <<>>

\* an engine that returns the insights in the order it found them
in_order_found(insights) == insights

\* insights.sort(key=lambda x: x.priority, reverse=True): stable, so
\* insights of one priority keep their order
sort_by_priority(insights) ==
    SelectSeq(insights, LAMBDA x : x.priority = 5)
        \o SelectSeq(insights, LAMBDA x : x.priority = 4)
        \o SelectSeq(insights, LAMBDA x : x.priority = 3)
        \o SelectSeq(insights, LAMBDA x : x.priority = 2)
        \o SelectSeq(insights, LAMBDA x : x.priority = 1)

\* the insights of a reflection pass, prioritized
reflection_insights(metrics) ==
    sort_by_priority(reflect_on_strategy_effectiveness(metrics)
                        \o reflect_on_pattern_usage(metrics)
                        \o reflect_on_failure_patterns(metrics)
                        \o reflect_on_user_feedback(metrics)
                        \o reflect_on_learning_progress(metrics))

\* [i for i in insights if i.priority >= 4]
high_priority(insights) == SelectSeq(insights, LAMBDA i : i.priority >= 4)

\* SelfReflectionEngine._generate_improvement_actions
generate_improvement_actions(actions, insights) ==
    actions \o [k \in DOMAIN high_priority(insights) |->
                   [insight_type |-> high_priority(insights)[k].insight_type,
                    action |-> high_priority(insights)[k].suggested_action,
                    status |-> "planned",
                    priority |-> high_priority(insights)[k].priority]]

\* the engine that lets insights change the converter: a pass with a
\* high-priority insight starts the tool statistics afresh
perform_reflection_acting(s, trigger) ==
    LET metrics == gather_performance_metrics(s.conversion_history)
        insights == reflection_insights(metrics)
        reflection_record == [trigger |-> trigger, metrics |-> metrics,
                              insights |-> insights,
                              actions_planned |-> Len(high_priority(insights))]
    IN  [insights |-> insights,
         state |-> [s EXCEPT !.reflection_history = Append(@, reflection_record),
                             !.last_reflection = Some(reflection_record),
                             !.improvement_actions =
                                 generate_improvement_actions(@, insights),
                             !.tool_performance =
                                 IF high_priority(insights) # <<>> THEN <<>> ELSE @]]

\* SelfReflectionEngine.perform_reflection on the converter and engine
\* state s: the insights it returns and the state after it
perform_reflection(s, trigger) ==
    LET metrics == gather_performance_metrics(s.conversion_history)
        insights == reflection_insights(metrics)
        reflection_record == [trigger |-> trigger, metrics |-> metrics,
                              insights |-> insights,
                              actions_planned |-> Len(high_priority(insights))]
    IN  [insights |-> insights,
         state |-> [s EXCEPT !.reflection_history = Append(@, reflection_record),
                             !.last_reflection = Some(reflection_record),
                             !.improvement_actions =
                                 generate_improvement_actions(@, insights)]]

\* SelfReflectionEngine.get_reflection_summary; no action is ever completed
get_reflection_summary(s) ==
    [total_reflections |-> Len(s.reflection_history),
     last_reflection |-> s.last_reflection # None,
     pending_actions |-> Len(SelectSeq(s.improvement_actions,
                                       LAMBDA a : a.status = "planned")),
     completed_actions |-> Len(SelectSeq(s.improvement_actions,
                                         LAMBDA a : a.status = "completed")),
     recent_insights |-> IF s.last_reflection # None
                         THEN Len(s.last_reflection[1].insights) ELSE 0]

\* an engine that reflects once and then rests
reflecting_once(s) ==
    /\ should_reflect(s.conversion_history)[1]
    /\ s.autonomy_level > 70
    /\ s.last_reflection = None

\* should_reflect and self.autonomy_level > 0.7
reflecting(s) == should_reflect(s.conversion_history)[1] /\ s.autonomy_level > 70

\* result.metadata["reflection"] = ...
with_reflection_metadata(result, s, after) ==
    [result EXCEPT !.metadata =
        [base |-> @.base, learning |-> @.learning,
         reflection |->
            [reflection_triggered |-> should_reflect(s.conversion_history)[1],
             trigger |-> should_reflect(s.conversion_history)[2],
             autonomy_level |-> after.autonomy_level,
             reflection_summary |-> get_reflection_summary(after)]]]

\* FullyAgenticConverter.convert on the state s: what it returns or raises,
\* the insights of the pass it made (None when it made none) and the state
\* after it
FullyAgenticConverter_convert(s, input_code, oracle) ==
    LET pass == perform_reflection(s, should_reflect(s.conversion_history)[2][1])
        reflected == IF reflecting(s) THEN pass.state ELSE s
    IN  The({ [out |-> IF r.out.raised THEN r.out
                       ELSE Return(with_reflection_metadata(r.out.value, s, reflected)),
               insights |-> IF reflecting(s) THEN Some(pass.insights) ELSE None,
               stored |-> r.stored,
               state |-> [reflected EXCEPT
                             !.tool_performance = r.tool_performance,
                             !.learned_patterns = r.learned_patterns,
                             !.conversion_history = r.conversion_history,
                             !.conversion_cases = r.conversion_cases,
                             !.strategy_performance = r.strategy_performance]] :
              r \in {LearningAgenticConverter_convert(reflected, input_code, oracle)} })

\* FullyAgenticConverter.set_autonomy_level: max(0, min(1, level))
set_autonomy_level(level) ==
    IF level > 100 THEN 100 ELSE IF level < 0 THEN 0 ELSE level

\* FullyAgenticConverter.trigger_manual_reflection
trigger_manual_reflection(s) == perform_reflection(s, PERIODIC)

---------------------------------------------------------------------------
(* State after construction: no tool statistics, empty history, empty tables *)

\* SelfReflectionEngine.__init__ and FullyAgenticConverter.__init__
ReflectionFresh ==
    /\ reflection_history = <<>>
    /\ last_reflection = None
    /\ improvement_actions = <<>>
    /\ autonomy_level = 80
    /\ trigger_log = <<>>

FreshWith(patterns) ==
    /\ tool_performance = <<>>
    /\ learned_patterns = patterns
    /\ conversion_history = <<>>
    /\ conversion_cases = <<>>
    /\ strategy_performance = <<>>
    /\ ret = NoCall
    /\ store_log = <<>>
    /\ perf_log = <<>>
    /\ memory = <<>>
    /\ ReflectionFresh
    /\ threads = <<>>

\* an empty learned_patterns table
Fresh == FreshWith(<<>>)

InitEmpty == Fresh /\ arg = <<>>

\* A call of _decide_strategy on a ConversionContext
DecideStrategy ==
    /\ ret = NoCall
    /\ ret' = [op |-> "decide_strategy", context |-> arg,
               out |-> decide_strategy(arg)]
    /\ UNCHANGED <<arg, state>>

InitStrategy == Fresh /\ arg \in Contexts

SpecStrategy == InitStrategy /\ [][DecideStrategy]_vars

---------------------------------------------------------------------------
(* Bounds and inputs of the analysis check *)

MaxPad == 120

Bodies ==
    { <<"">>,
      <<"cy.visit('/home')", "cy.get('#user').type('bob')">>,
      <<"cy.intercept('GET', '/api/users')", "cy.get('#msg').should('contain', 'ok')">>,
      <<"cy.login('admin')", "cy.customLogin()", "cy.login('admin')">>,
      <<"describe('suite', () => {", "  it('works', () => {", "cy.click('#go')">> }

AnalysisResponses ==
    { NotJson, NonObject, OracleRaises, EmptyObject,
      JsonObject(Some(8), Some(FALSE), Some(TRUE), Some(FALSE), Some(2)),
      JsonObject(Some(3), Some(TRUE), Some(FALSE), Some(TRUE), Some(4)) }

\* A call of _analyze_code
AnalyzeCode ==
    /\ ret = NoCall
    /\ ret' = [op |-> "analyze_code", code |-> arg.code, response |-> arg.response,
               out |-> analyze_code(arg.code, arg.response)]
    /\ UNCHANGED <<arg, state>>

InitAnalyze ==
    /\ Fresh
    /\ arg \in { [code |-> Pad(body, n), response |-> response] :
                    body \in Bodies, n \in 0..MaxPad, response \in AnalysisResponses }

SpecAnalyze == InitAnalyze /\ [][AnalyzeCode]_vars

---------------------------------------------------------------------------
(* The tool-enabled converter: calls of EnhancedAgenticConverter.convert *)

MaxToolRuns == 2

Inputs == Bodies \cup {Pad(<<"cy.customLogin()">>, 80)}

ConversionResponses == {OracleText("javascript", "converted"), OracleRaises}

\* every tool's attempt counter is below the bound
ToolRunsBelowBound ==
    \A k \in DOMAIN tool_performance : tool_performance[k].attempts < MaxToolRuns

ConvertEnhanced ==
    /\ ToolRunsBelowBound
    /\ \E code \in Inputs, analysis \in AnalysisResponses,
          conversion \in ConversionResponses :
          \E r \in {EnhancedAgenticConverter_convert(tool_performance, code,
                                                    analysis, conversion)} :
              /\ tool_performance' = r.tp
              /\ ret' = [op |-> "convert_enhanced", code |-> code,
                         analysis |-> analysis, conversion |-> conversion,
                         context |-> r.context, tools |-> r.tools,
                         strategy |-> r.strategy, out |-> r.out]
    /\ UNCHANGED <<reflection_engine, arg, memory, threads, learned_patterns,
                   conversion_history, conversion_cases,
                   strategy_performance, store_log, perf_log>>

Spec == InitEmpty /\ [][ConvertEnhanced]_vars

---------------------------------------------------------------------------
(* The learning converter on a database that holds learned patterns:       *)
(* calls of LearningAgenticConverter.convert and of                        *)
(* MemoryStore.store_conversion_case                                       *)

MaxConversions == 2

MaxWrites == 3

\* rows of the learned_patterns table that _load_patterns reads
LoadedPatterns ==
    << LearningPattern("p1", <<"GET_ELEMENT", "CLICK_ELEMENT">>, 90, 0, 80,
                       [has_api_calls |-> FALSE]),
       LearningPattern("p2", <<"GET_ELEMENT">>, 95, 3, 90,
                       [has_form_interactions |-> FALSE, code_complexity |-> 0]),
       LearningPattern("p3", <<>>, 85, 1, 90, [test_count |-> 1]) >>

LearningInputs ==
    { <<"cy.get('#msg').should('contain', 'ok')">>,
      <<"cy.visit('/home')">> }

Oracles ==
    { Oracle(analysis, guided, again, OracleText("javascript", "converted")) :
        analysis \in {NotJson, OracleRaises,
                      JsonObject(Some(8), Some(FALSE), Some(TRUE), Some(FALSE), Some(2))},
        guided \in {OracleText("javascript", "converted"), OracleRaises},
        again \in {NotJson} }

\* the converter's state as one value
Program ==
    [tool_performance |-> tool_performance, learned_patterns |-> learned_patterns,
     conversion_history |-> conversion_history, conversion_cases |-> conversion_cases,
     strategy_performance |-> strategy_performance]

\* the update_strategy_performance call that convert makes for a stored case
PerfCall(case) ==
    [strategy |-> case.strategy_used, context |-> case.context,
     success |-> case.success, confidence |-> case.confidence]

InitLoaded == FreshWith(LoadedPatterns) /\ arg = <<>>

\* A call of LearningAgenticConverter.convert
ConvertLearning ==
    /\ Len(conversion_history) < MaxConversions
    /\ ToolRunsBelowBound
    /\ \E input_code \in LearningInputs, oracle \in Oracles :
          \E r \in {LearningAgenticConverter_convert(Program, input_code, oracle)} :
              /\ tool_performance' = r.tool_performance
              /\ learned_patterns' = r.learned_patterns
              /\ conversion_history' = r.conversion_history
              /\ conversion_cases' = r.conversion_cases
              /\ strategy_performance' = r.strategy_performance
              /\ store_log' = store_log \o r.stored
              /\ perf_log' = perf_log \o [i \in DOMAIN r.stored |-> PerfCall(r.stored[i])]
              /\ ret' = [op |-> "convert_learning", input_code |-> input_code,
                         matching_pattern |-> r.matching_pattern, path |-> r.path,
                         replaced |-> SelectSeq(conversion_cases,
                                          LAMBDA row : row.input_hash = md5_16(input_code)),
                         stored |-> r.stored, out |-> r.out]
    /\ UNCHANGED <<reflection_engine, arg, memory, threads>>

\* cases as convert builds them
StoreCases ==
    { ConversionCase(md5_16(input_code), input_code, "converted", strategy_used,
                     success, 85, AsDict(ConversionContext(0, FALSE, FALSE, FALSE, 1))) :
        input_code \in {<<"cy.visit('/home')">>,
                        <<"cy.get('#msg').should('contain', 'ok')">>},
        strategy_used \in {SIMPLE}, success \in {TRUE} }

\* A call of MemoryStore.store_conversion_case
StoreConversionCase ==
    /\ Len(store_log) < MaxWrites
    /\ \E case \in StoreCases :
          /\ conversion_cases' = store_conversion_case(conversion_cases, case)
          /\ store_log' = Append(store_log, case)
          /\ ret' = [op |-> "store_conversion_case", case |-> case]
    /\ UNCHANGED <<reflection_engine,
                   tool_performance, memory, threads, learned_patterns, conversion_history,
                   strategy_performance, arg, perf_log>>

SpecStore == InitLoaded /\ [][ConvertLearning \/ StoreConversionCase]_vars

---------------------------------------------------------------------------
(* Calls of MemoryStore.update_strategy_performance on an empty database   *)

MaxUpdates == 3

PerfContexts ==
    { AsDict(ConversionContext(0, FALSE, FALSE, FALSE, 0)),
      AsDict(ConversionContext(8, FALSE, TRUE, FALSE, 2)) }

Confidences == {0, 50, 95}

UpdateStrategyPerformance ==
    /\ Len(perf_log) < MaxUpdates
    /\ \E strategy \in {SIMPLE, COMPLEX}, context \in PerfContexts,
          success \in BOOLEAN, confidence \in Confidences :
          /\ strategy_performance' =
                update_strategy_performance(strategy_performance, strategy, context,
                                            success, confidence)
          /\ perf_log' = Append(perf_log, [strategy |-> strategy, context |-> context,
                                           success |-> success,
                                           confidence |-> confidence])
          /\ ret' = [op |-> "update_strategy_performance", strategy |-> strategy,
                     context |-> context]
    /\ UNCHANGED <<reflection_engine,
                   tool_performance, memory, threads, learned_patterns, conversion_history,
                   conversion_cases, arg, store_log>>

SpecPerf == InitEmpty /\ [][UpdateStrategyPerformance]_vars

---------------------------------------------------------------------------
(* Calls of SelfReflectionEngine.should_reflect on a converter whose       *)
(* history is given                                                        *)

MaxHistory == 51

\* a case of a history: a conversion of one input
HistoryCase(success, confidence, feedback_score) ==
    [ConversionCase("655cdcebddc08a58", <<"cy.visit('/home')">>, "converted", SIMPLE,
                    success, confidence,
                    AsDict(ConversionContext(0, FALSE, FALSE, FALSE, 1)))
        EXCEPT !.feedback_score = feedback_score]

\* histories of up to longest cases: the cases at the positions failed
\* (counted from the end) failed with confidence 0, those at the positions
\* rated carry the feedback score, the other cases of the last ten have
\* the confidence recent and the older ones 0.85
HistoriesUpTo(longest) ==
    { [i \in 1..n |->
          HistoryCase(n - i + 1 \notin failed,
                      IF n - i + 1 \in failed THEN 0
                      ELSE IF n - i + 1 <= 10 THEN recent ELSE 85,
                      IF n - i + 1 \in rated THEN Some(score) ELSE None)] :
        n \in 0..longest, failed \in SUBSET {1, 5, 10, 11},
        rated \in SUBSET {2, 10, 11}, score \in {2, 3}, recent \in {50, 60, 85} }

InitReflect ==
    /\ conversion_history \in HistoriesUpTo(MaxHistory)
    /\ tool_performance = <<>>
    /\ learned_patterns = <<>>
    /\ conversion_cases = <<>>
    /\ strategy_performance = <<>>
    /\ arg = <<>>
    /\ ret = NoCall
    /\ store_log = <<>>
    /\ perf_log = <<>>
    /\ memory = <<>>
    /\ ReflectionFresh
    /\ threads = <<>>

\* A call of SelfReflectionEngine.should_reflect
ShouldReflect ==
    /\ ret.op # "should_reflect"
    /\ ret' = [op |-> "should_reflect", out |-> should_reflect(conversion_history)]
    /\ UNCHANGED <<arg, state>>

SpecReflect == InitReflect /\ [][ShouldReflect]_vars

---------------------------------------------------------------------------
(* Calls of should_reflect on histories around the confidence drop: two    *)
(* runs of cases of equal confidence, with failures (confidence 0) among   *)
(* the last ten                                                            *)

\* histories of n cases: the last ten at the confidence recent, the cases
\* before them at older, the cases at the positions failed (counted from
\* the end) failed with confidence 0
TrendHistories ==
    { [i \in 1..n |->
          HistoryCase(n - i + 1 \notin failed,
                      IF n - i + 1 \in failed THEN 0
                      ELSE IF n - i + 1 <= 10 THEN recent ELSE older,
                      None)] :
        n \in {10, 19, 20, 21, 30}, failed \in SUBSET {1, 5, 10},
        older \in {80, 85, 90}, recent \in {59, 60, 65, 85} }

InitTrend ==
    /\ conversion_history \in TrendHistories
    /\ tool_performance = <<>>
    /\ learned_patterns = <<>>
    /\ conversion_cases = <<>>
    /\ strategy_performance = <<>>
    /\ arg = <<>>
    /\ ret = NoCall
    /\ store_log = <<>>
    /\ perf_log = <<>>
    /\ memory = <<>>
    /\ ReflectionFresh
    /\ threads = <<>>

SpecTrend == InitTrend /\ [][ShouldReflect]_vars

---------------------------------------------------------------------------
(* The learning converter with feedback and the reflection check           *)

FeedbackScores == {1, 2, 4}

\* A call of LearningAgenticConverter.provide_feedback
ProvideFeedback ==
    /\ \E input_code \in LearningInputs, feedback_score \in FeedbackScores :
          /\ conversion_cases' =
                provide_feedback(conversion_cases, md5_16(input_code), feedback_score)
          /\ ret' = [op |-> "provide_feedback", input_hash |-> md5_16(input_code),
                     feedback_score |-> feedback_score, out |-> Return(None)]
    /\ UNCHANGED <<reflection_engine,
                   tool_performance, memory, threads, learned_patterns, conversion_history,
                   strategy_performance, arg, store_log, perf_log>>

SpecLearning == InitLoaded /\ [][ConvertLearning \/ ProvideFeedback \/ ShouldReflect]_vars

---------------------------------------------------------------------------
(* The fully agentic converter: conversions with the reflection check,     *)
(* changes of the autonomy level and manual reflection, on a converter     *)
(* that has already made a number of conversions                           *)

MaxReflections == 2

\* the converter and its reflection engine as one value
Agent ==
    [tool_performance |-> tool_performance, learned_patterns |-> learned_patterns,
     conversion_history |-> conversion_history, conversion_cases |-> conversion_cases,
     strategy_performance |-> strategy_performance,
     reflection_history |-> reflection_history, last_reflection |-> last_reflection,
     improvement_actions |-> improvement_actions, autonomy_level |-> autonomy_level]

\* an oracle that answers every request
AnsweringOracle ==
    Oracle(NotJson, OracleText("javascript", "converted"), NotJson,
           OracleText("javascript", "converted"))

\* the oracles of the conversions: one answers, one fails the pattern-guided request
FullyOracles ==
    { AnsweringOracle,
      Oracle(NotJson, OracleRaises, NotJson, OracleText("javascript", "converted")) }

\* a converter and its engine after construction on the loaded patterns
Constructed ==
    [tool_performance |-> <<>>, learned_patterns |-> LoadedPatterns,
     conversion_history |-> <<>>, conversion_cases |-> <<>>,
     strategy_performance |-> <<>>,
     reflection_history |-> <<>>, last_reflection |-> None,
     improvement_actions |-> <<>>, autonomy_level |-> 80]

\* the state that n further conversions of one input lead to from s: the
\* first half of them, then the rest
RECURSIVE Converted(_, _)
Converted(s, n) ==
    IF n = 0 THEN s
    ELSE IF n = 1
    THEN FullyAgenticConverter_convert(s, <<"cy.visit('/home')">>, AnsweringOracle).state
    ELSE The({ Converted(half, n - (n \div 2)) : half \in {Converted(s, n \div 2)} })

\* the state after n conversions
AfterConversions(n) == Converted(Constructed, n)

\* the numbers of conversions made before: none, or up to the 50th
ConversionsBefore == {0, 48, 49, 50}

InitFully ==
    /\ \E n \in ConversionsBefore :
          /\ tool_performance = AfterConversions(n).tool_performance
          /\ learned_patterns = AfterConversions(n).learned_patterns
          /\ conversion_history = AfterConversions(n).conversion_history
          /\ conversion_cases = AfterConversions(n).conversion_cases
          /\ strategy_performance = AfterConversions(n).strategy_performance
          /\ reflection_history = AfterConversions(n).reflection_history
          /\ last_reflection = AfterConversions(n).last_reflection
          /\ improvement_actions = AfterConversions(n).improvement_actions
          /\ autonomy_level = AfterConversions(n).autonomy_level
          /\ trigger_log = <<>>
          /\ arg = [conversions |-> n]
    /\ memory = <<>>
    /\ threads = <<>>
    /\ ret = NoCall
    /\ store_log = <<>>
    /\ perf_log = <<>>

\* the state s becomes the state of the converter and its engine
Becomes(s) ==
    /\ tool_performance' = s.tool_performance
    /\ learned_patterns' = s.learned_patterns
    /\ conversion_history' = s.conversion_history
    /\ conversion_cases' = s.conversion_cases
    /\ strategy_performance' = s.strategy_performance
    /\ reflection_history' = s.reflection_history
    /\ last_reflection' = s.last_reflection
    /\ improvement_actions' = s.improvement_actions
    /\ autonomy_level' = s.autonomy_level

\* A call of FullyAgenticConverter.convert
ConvertFully ==
    /\ Len(conversion_history) < arg.conversions + MaxConversions
    /\ Len(reflection_history) < MaxReflections
    /\ ToolRunsBelowBound
    /\ \E input_code \in LearningInputs, oracle \in FullyOracles :
          \E r \in {FullyAgenticConverter_convert(Agent, input_code, oracle)} :
              /\ Becomes(r.state)
              /\ store_log' = store_log \o r.stored
              /\ perf_log' = perf_log \o [i \in DOMAIN r.stored |-> PerfCall(r.stored[i])]
              /\ trigger_log' =
                    IF should_reflect(conversion_history)[1]
                    THEN Append(trigger_log,
                                [trigger |-> should_reflect(conversion_history)[2][1],
                                 conversions |-> Len(conversion_history)])
                    ELSE trigger_log
              /\ ret' = [op |-> "convert_fully", input_code |-> input_code,
                         conversions |-> Len(conversion_history),
                         should_reflect |-> should_reflect(conversion_history),
                         autonomy_level |-> autonomy_level,
                         actions_before |-> Len(improvement_actions),
                         insights |-> r.insights, out |-> r.out]
    /\ UNCHANGED <<arg, memory, threads>>

\* the levels that callers set, some outside [0, 1]
AutonomyLevels == {-10, 70, 71, 150}

\* A call of FullyAgenticConverter.set_autonomy_level
SetAutonomyLevel ==
    /\ \E level \in AutonomyLevels :
          /\ autonomy_level' = set_autonomy_level(level)
          /\ ret' = [op |-> "set_autonomy_level", level |-> level]
    /\ UNCHANGED <<tool_performance, learned_patterns, conversion_history,
                   conversion_cases, strategy_performance, reflection_history,
                   last_reflection, improvement_actions, trigger_log, arg, memory,
                   threads, store_log, perf_log>>

\* A call of FullyAgenticConverter.trigger_manual_reflection
TriggerManualReflection ==
    /\ Len(reflection_history) < MaxReflections
    /\ \E r \in {trigger_manual_reflection(Agent)} :
          /\ Becomes(r.state)
          /\ ret' = [op |-> "perform_reflection", trigger |-> PERIODIC,
                     out |-> r.insights]
    /\ UNCHANGED <<arg, memory, threads, store_log, perf_log, trigger_log>>

SpecFully == InitFully /\ [][ConvertFully \/ SetAutonomyLevel \/ TriggerManualReflection]_vars

---------------------------------------------------------------------------
(* Reflection passes of an engine on a converter whose history is given:   *)
(* cases of one or two strategies, failed or not, with or without          *)
(* feedback                                                                *)

\* class ReflectionTrigger
ReflectionTrigger ==
    {FAILURE_THRESHOLD, PERIODIC, CONFIDENCE_DROP, USER_FEEDBACK, PATTERN_MISMATCH}

\* a case of a history converted with the given strategy
StrategyCase(strategy, success, confidence, feedback_score) ==
    [HistoryCase(success, confidence, feedback_score) EXCEPT !.strategy_used = strategy]

\* which cases of a history failed
Outcomes == {"none", "even", "third", "all"}

\* the case at position i failed
Failed(i, outcome) ==
    \/ outcome = "all"
    \/ outcome = "even" /\ i % 2 = 0
    \/ outcome = "third" /\ i % 3 = 0

\* the case at position i is one of those that users rated
Rated(i, rated) ==
    \/ rated = "third" /\ i % 3 = 0
    \/ rated = "first" /\ i = 1

\* histories of n cases: the cases at even positions were converted with the
\* strategy second, the other ones with SIMPLE; failed cases have the
\* confidence 0, the other ones 0.85; every third case, or the first case
\* only, carries the feedback score, if there is one
PassHistories ==
    { [i \in 1..n |->
          StrategyCase(IF i % 2 = 0 THEN second ELSE SIMPLE,
                       ~Failed(i, outcome),
                       IF Failed(i, outcome) THEN 0 ELSE 85,
                       IF Rated(i, rated) THEN score ELSE None)] :
        n \in {0, 1, 4, 10, 25}, second \in {SIMPLE, COMPLEX},
        outcome \in Outcomes, rated \in {"third", "first"},
        score \in {None, Some(1), Some(3), Some(5)} }

InitPass ==
    /\ conversion_history \in PassHistories
    /\ tool_performance = <<>>
    /\ learned_patterns = <<>>
    /\ conversion_cases = <<>>
    /\ strategy_performance = <<>>
    /\ arg = <<>>
    /\ ret = NoCall
    /\ store_log = <<>>
    /\ perf_log = <<>>
    /\ memory = <<>>
    /\ ReflectionFresh
    /\ threads = <<>>

\* A call of SelfReflectionEngine.perform_reflection
PerformReflection ==
    /\ Len(reflection_history) < MaxReflections
    /\ \E trigger \in ReflectionTrigger :
          \E r \in {perform_reflection(Agent, trigger)} :
              /\ Becomes(r.state)
              /\ ret' = [op |-> "perform_reflection", trigger |-> trigger,
                         actions_before |-> improvement_actions,
                         out |-> r.insights]
    /\ UNCHANGED <<arg, memory, threads, store_log, perf_log, trigger_log>>

SpecPass == InitPass /\ [][PerformReflection]_vars

---------------------------------------------------------------------------
(* Conversions of the basic and of the tool-enabled converter, whose       *)
(* memory and tool statistics change from one run to the next              *)

MaxMemory == 2

SelectInputs ==
    { <<"cy.visit('/home')", "cy.get('#user').type('bob')">>,
      <<"cy.intercept('GET', '/api/users')", "cy.get('#msg').should('contain', 'ok')">> }

SelectAnalyses ==
    { NotJson, JsonObject(Some(8), Some(FALSE), Some(TRUE), Some(FALSE), Some(2)) }

RECURSIVE MemoryAttempts(_, _)
\* the number of conversions that the entries of mem with keys in keys record
MemoryAttempts(mem, keys) ==
    IF keys = {} THEN 0
    ELSE The({ mem[k].attempts + MemoryAttempts(mem, keys \ {k}) :
               k \in {CHOOSE k \in keys : TRUE} })

\* A call of AgenticConverter.convert
ConvertAgentic ==
    /\ MemoryAttempts(memory, DOMAIN memory) < MaxMemory
    /\ \E code \in SelectInputs, analysis \in SelectAnalyses,
          conversion \in ConversionResponses :
          \E r \in {AgenticConverter_convert(memory, code, analysis, conversion)} :
              /\ memory' = r.memory
              /\ ret' = [op |-> "convert_agentic", code |-> code, analysis |-> analysis,
                         conversion |-> conversion, context |-> r.context,
                         strategy |-> r.strategy, out |-> r.out]
    /\ UNCHANGED <<reflection_engine,
                   arg, tool_performance, threads, learned_patterns, conversion_history,
                   conversion_cases, strategy_performance, store_log, perf_log>>

\* A call of EnhancedAgenticConverter.convert on the same inputs
ConvertEnhancedSelect ==
    /\ ToolRunsBelowBound
    /\ \E code \in SelectInputs, analysis \in SelectAnalyses,
          conversion \in {OracleText("javascript", "converted")} :
          \E r \in {EnhancedAgenticConverter_convert(tool_performance, code,
                                                    analysis, conversion)} :
              /\ tool_performance' = r.tp
              /\ ret' = [op |-> "convert_enhanced", code |-> code,
                         analysis |-> analysis, conversion |-> conversion,
                         context |-> r.context, tools |-> r.tools,
                         strategy |-> r.strategy, out |-> r.out]
    /\ UNCHANGED <<reflection_engine,
                   arg, memory, threads, learned_patterns, conversion_history,
                   conversion_cases, strategy_performance, store_log, perf_log>>

SpecSelect == InitEmpty /\ [][ConvertAgentic \/ ConvertEnhancedSelect]_vars

---------------------------------------------------------------------------
(* Concurrent calls of AgenticToolSelector._update_tool_performance for    *)
(* one tool key.  The method takes no lock; each request is a thread that  *)
(* runs its statements in order, and between a read and the write that     *)
(* follows it another thread may run.  An entry of the table is a dict     *)
(* object: id tells the objects apart (0 for the entry present at the      *)
(* start, t for the one that thread t created).                            *)

MaxThreads == 2

UpdateKey == ToolKey(REGEX_MATCHER, AsDict(ConversionContext(0, FALSE, FALSE, FALSE, 1)))

\* the table at the start: empty, or with an entry for the key
StartTables ==
    { <<>>,
      [k \in {UpdateKey} |-> [id |-> 0, attempts |-> 1, successes |-> 1,
                              success_rate |-> <<1, 1>>]] }

InitConcurrent ==
    /\ tool_performance \in StartTables
    /\ threads \in [1..MaxThreads -> [pc : {"check"}, success : BOOLEAN,
                                       perf : {0}, loaded : {0}]]
    /\ memory = <<>>
    /\ ReflectionFresh
    /\ learned_patterns = <<>>
    /\ conversion_history = <<>>
    /\ conversion_cases = <<>>
    /\ strategy_performance = <<>>
    /\ arg = [table |-> tool_performance]
    /\ ret = NoCall
    /\ store_log = <<>>
    /\ perf_log = <<>>

\* thread t moves to pc, with its locals changed as given
Goto(t, pc, perf, loaded) ==
    threads' = [threads EXCEPT ![t] = [@ EXCEPT !.pc = pc, !.perf = perf,
                                                !.loaded = loaded]]

\* the dict that thread t holds in perf is still the entry of the table
Live(t) ==
    UpdateKey \in DOMAIN tool_performance
        /\ tool_performance[UpdateKey].id = threads[t].perf

\* if tool_key not in self.tool_performance
Check(t) ==
    /\ threads[t].pc = "check"
    /\ Goto(t, IF UpdateKey \in DOMAIN tool_performance THEN "fetch" ELSE "create",
            threads[t].perf, threads[t].loaded)
    /\ UNCHANGED tool_performance

\* self.tool_performance[tool_key] = {"attempts": 0, "successes": 0, ...}
Create(t) ==
    /\ threads[t].pc = "create"
    /\ tool_performance' =
          [k \in DOMAIN tool_performance \cup {UpdateKey} |->
              IF k = UpdateKey
              THEN [id |-> t, attempts |-> 0, successes |-> 0, success_rate |-> <<1, 2>>]
              ELSE tool_performance[k]]
    /\ Goto(t, "fetch", threads[t].perf, threads[t].loaded)

\* perf = self.tool_performance[tool_key]
Fetch(t) ==
    /\ threads[t].pc = "fetch"
    /\ Goto(t, "load_attempts", tool_performance[UpdateKey].id, threads[t].loaded)
    /\ UNCHANGED tool_performance

\* perf["attempts"] += 1, the read
LoadAttempts(t) ==
    /\ threads[t].pc = "load_attempts"
    /\ Goto(t, "store_attempts", threads[t].perf,
            IF Live(t) THEN tool_performance[UpdateKey].attempts ELSE 0)
    /\ UNCHANGED tool_performance

\* perf["attempts"] += 1, the write
StoreAttempts(t) ==
    /\ threads[t].pc = "store_attempts"
    /\ tool_performance' =
          IF Live(t)
          THEN [tool_performance EXCEPT ![UpdateKey].attempts = threads[t].loaded + 1]
          ELSE tool_performance
    /\ Goto(t, IF threads[t].success THEN "load_successes" ELSE "rate",
            threads[t].perf, threads[t].loaded)

\* perf["successes"] += 1, the read
LoadSuccesses(t) ==
    /\ threads[t].pc = "load_successes"
    /\ Goto(t, "store_successes", threads[t].perf,
            IF Live(t) THEN tool_performance[UpdateKey].successes ELSE 0)
    /\ UNCHANGED tool_performance

\* perf["successes"] += 1, the write
StoreSuccesses(t) ==
    /\ threads[t].pc = "store_successes"
    /\ tool_performance' =
          IF Live(t)
          THEN [tool_performance EXCEPT ![UpdateKey].successes = threads[t].loaded + 1]
          ELSE tool_performance
    /\ Goto(t, "rate", threads[t].perf, threads[t].loaded)

\* perf["success_rate"] = perf["successes"] / perf["attempts"]
StoreRate(t) ==
    /\ threads[t].pc = "rate"
    /\ tool_performance' =
          IF Live(t)
          THEN [tool_performance EXCEPT ![UpdateKey].success_rate =
                    Fraction(tool_performance[UpdateKey].successes,
                             tool_performance[UpdateKey].attempts)]
          ELSE tool_performance
    /\ Goto(t, "done", threads[t].perf, threads[t].loaded)

\* one statement of _update_tool_performance in some request
UpdateStep ==
    /\ \E t \in DOMAIN threads :
          \/ Check(t)
          \/ Create(t)
          \/ Fetch(t)
          \/ LoadAttempts(t)
          \/ StoreAttempts(t)
          \/ LoadSuccesses(t)
          \/ StoreSuccesses(t)
          \/ StoreRate(t)
    /\ UNCHANGED <<reflection_engine,
                   memory, learned_patterns, conversion_history, conversion_cases,
                   strategy_performance, arg, ret, store_log, perf_log>>

SpecConcurrent == InitConcurrent /\ [][UpdateStep]_vars

---------------------------------------------------------------------------
(* Concurrent requests in MemoryStore.store_conversion_case.  Each call    *)
(* opens its own connection and runs one INSERT OR REPLACE statement in a  *)
(* transaction that commit ends.  The statement takes the database's       *)
(* write lock, which one connection holds at a time, and builds the new    *)
(* table in the connection's cache; commit writes the cache to the file    *)
(* and gives the lock back.  A connection that finds the lock taken waits. *)

\* two inputs with different hashes, each converted in two ways
ConcurrentCases ==
    { ConversionCase(md5_16(input_code), input_code, output_code, SIMPLE,
                     TRUE, 85, AsDict(ConversionContext(0, FALSE, FALSE, FALSE, 1))) :
        input_code \in {<<"cy.visit('/home')">>,
                        <<"cy.get('#msg').should('contain', 'ok')">>},
        output_code \in {"converted", "await page.goto('/home');"} }

\* the conversion_cases table at the start: empty, or with a row for an input
StartCases ==
    { <<>>,
      << ConversionCase(md5_16(<<"cy.visit('/home')">>), <<"cy.visit('/home')">>,
                        "// kept", COMPLEX, FALSE, 0,
                        AsDict(ConversionContext(0, FALSE, FALSE, FALSE, 1))) >> }

InitStoreConcurrent ==
    /\ conversion_cases \in StartCases
    /\ threads \in [1..MaxThreads -> [pc : {"connect"}, case : ConcurrentCases,
                                       cache : {<<>>}]]
    /\ tool_performance = <<>>
    /\ memory = <<>>
    /\ ReflectionFresh
    /\ learned_patterns = <<>>
    /\ conversion_history = <<>>
    /\ strategy_performance = <<>>
    /\ arg = [table |-> conversion_cases]
    /\ ret = NoCall
    /\ store_log = <<>>
    /\ perf_log = <<>>

\* the write lock is taken by every connection
reserved_lock_ignored(ths, t) == TRUE

\* no other connection is inside a write transaction
reserved_lock_free(ths, t) ==
    \A other \in DOMAIN ths \ {t} : ths[other].pc # "commit"

\* conn = sqlite3.connect(self.db_path); cursor = conn.cursor()
Connect(t) ==
    /\ threads[t].pc = "connect"
    /\ threads' = [threads EXCEPT ![t].pc = "execute"]
    /\ UNCHANGED <<conversion_cases, store_log>>

\* cursor.execute('INSERT OR REPLACE INTO conversion_cases ...')
Execute(t) ==
    /\ threads[t].pc = "execute"
    /\ reserved_lock_free(threads, t)
    /\ threads' = [threads EXCEPT ![t].pc = "commit",
                      ![t].cache = store_conversion_case(conversion_cases, threads[t].case)]
    /\ UNCHANGED <<conversion_cases, store_log>>

\* conn.commit()
Commit(t) ==
    /\ threads[t].pc = "commit"
    /\ conversion_cases' = threads[t].cache
    /\ store_log' = Append(store_log, threads[t].case)
    /\ threads' = [threads EXCEPT ![t].pc = "close"]

\* conn.close()
Close(t) ==
    /\ threads[t].pc = "close"
    /\ threads' = [threads EXCEPT ![t].pc = "done", ![t].cache = <<>>]
    /\ UNCHANGED <<conversion_cases, store_log>>

\* one statement of store_conversion_case in some request
StoreStep ==
    /\ \E t \in DOMAIN threads :
          \/ Connect(t)
          \/ Execute(t)
          \/ Commit(t)
          \/ Close(t)
    /\ UNCHANGED <<reflection_engine,
                   tool_performance, memory, learned_patterns, conversion_history,
                   strategy_performance, arg, ret, perf_log>>

SpecStoreConcurrent == InitStoreConcurrent /\ [][StoreStep]_vars

---------------------------------------------------------------------------
(* Requests that run MemoryStore.update_strategy_performance at the same   *)
(* time for one strategy and context, each on its own connection.  A       *)
(* SELECT sees the committed table; an UPDATE or INSERT opens the write    *)
(* transaction, which one connection at a time can hold until it commits.  *)

\* the key of the row: strategy and context_hash
PerfKey ==
    <<SIMPLE, context_hash(AsDict(ConversionContext(0, FALSE, FALSE, FALSE, 1)))>>

\* the strategy_performance table at the start: empty, or with the row
StartPerf ==
    { <<>>,
      [k \in {PerfKey} |->
          [attempts |-> 1, successes |-> 1, avg_confidence |-> <<85, 1>>]] }

InitPerfConcurrent ==
    /\ strategy_performance \in StartPerf
    /\ threads \in [1..MaxThreads -> [pc : {"connect"}, success : BOOLEAN,
                                       confidence : {85}, row : {None}, cache : {<<>>}]]
    /\ tool_performance = <<>>
    /\ memory = <<>>
    /\ ReflectionFresh
    /\ learned_patterns = <<>>
    /\ conversion_history = <<>>
    /\ conversion_cases = <<>>
    /\ arg = [table |-> strategy_performance]
    /\ ret = NoCall
    /\ store_log = <<>>
    /\ perf_log = <<>>

\* the values of the UPDATE, computed from the row that was fetched
updated_row(row, success, confidence) ==
    [attempts |-> row.attempts + 1,
     successes |-> row.successes + (IF success THEN 1 ELSE 0),
     avg_confidence |-> Fraction(row.avg_confidence[1] * row.attempts
                                   + confidence * row.avg_confidence[2],
                                 row.avg_confidence[2] * (row.attempts + 1))]

\* the values of the INSERT
inserted_row(success, confidence) ==
    [attempts |-> 1, successes |-> IF success THEN 1 ELSE 0,
     avg_confidence |-> Fraction(confidence, 1)]

\* conn = sqlite3.connect(self.db_path); cursor = conn.cursor()
PerfConnect(t) ==
    /\ threads[t].pc = "connect"
    /\ threads' = [threads EXCEPT ![t].pc = "select"]
    /\ UNCHANGED <<strategy_performance, perf_log>>

\* cursor.execute('SELECT ...'); row = cursor.fetchone(); if row:
SelectRow(t) ==
    /\ threads[t].pc = "select"
    /\ threads' = [threads EXCEPT
                      ![t].row = IF PerfKey \in DOMAIN strategy_performance
                                 THEN Some(strategy_performance[PerfKey]) ELSE None,
                      ![t].pc = IF PerfKey \in DOMAIN strategy_performance
                                THEN "update" ELSE "insert"]
    /\ UNCHANGED <<strategy_performance, perf_log>>

\* cursor.execute('UPDATE strategy_performance SET ... WHERE ...')
UpdateRow(t) ==
    /\ threads[t].pc = "update"
    /\ reserved_lock_free(threads, t)
    /\ threads' = [threads EXCEPT
                      ![t].cache =
                          [strategy_performance EXCEPT
                              ![PerfKey] = updated_row(threads[t].row[1], threads[t].success,
                                                       threads[t].confidence)],
                      ![t].pc = "commit"]
    /\ UNCHANGED <<strategy_performance, perf_log>>

\* cursor.execute('INSERT INTO strategy_performance ...'): the primary key
\* (strategy, context_hash) makes it raise sqlite3.IntegrityError when the
\* row is there by now
InsertRow(t) ==
    /\ threads[t].pc = "insert"
    /\ reserved_lock_free(threads, t)
    /\ threads' =
          IF PerfKey \in DOMAIN strategy_performance
          THEN [threads EXCEPT ![t].pc = "IntegrityError"]
          ELSE [threads EXCEPT
                   ![t].cache =
                       [k \in DOMAIN strategy_performance \cup {PerfKey} |->
                           IF k = PerfKey
                           THEN inserted_row(threads[t].success, threads[t].confidence)
                           ELSE strategy_performance[k]],
                   ![t].pc = "commit"]
    /\ UNCHANGED <<strategy_performance, perf_log>>

\* conn.commit()
PerfCommit(t) ==
    /\ threads[t].pc = "commit"
    /\ strategy_performance' = threads[t].cache
    /\ perf_log' = Append(perf_log, [strategy |-> SIMPLE, success |-> threads[t].success,
                                     confidence |-> threads[t].confidence])
    /\ threads' = [threads EXCEPT ![t].pc = "close"]

\* conn.close()
PerfClose(t) ==
    /\ threads[t].pc = "close"
    /\ threads' = [threads EXCEPT ![t].pc = "done", ![t].cache = <<>>]
    /\ UNCHANGED <<strategy_performance, perf_log>>

\* one statement of update_strategy_performance in some request
PerfStep ==
    /\ \E t \in DOMAIN threads :
          \/ PerfConnect(t)
          \/ SelectRow(t)
          \/ UpdateRow(t)
          \/ InsertRow(t)
          \/ PerfCommit(t)
          \/ PerfClose(t)
    /\ UNCHANGED <<reflection_engine,
                   tool_performance, memory, learned_patterns, conversion_history,
                   conversion_cases, arg, ret, store_log>>

SpecPerfConcurrent == InitPerfConcurrent /\ [][PerfStep]_vars

---------------------------------------------------------------------------
(* Calls of AgenticConverter._execute_plan, the final conversion step      *)

Llms == {"GroqLLM", "callable"}

Transports ==
    {OracleText("javascript", "converted"), OracleText("", "converted"), OracleRaises}

InitExecute ==
    /\ Fresh
    /\ arg \in [context : Contexts, llm : Llms, transport : Transports]

\* A call of _execute_plan with the plan that convert builds for the context
ExecutePlan ==
    /\ ret = NoCall
    /\ ret' = [op |-> "execute_plan", context |-> arg.context, llm |-> arg.llm,
               transport |-> arg.transport,
               out |-> execute_plan(plan_steps(decide_strategy(arg.context).value),
                                    arg.context, llm_call(arg.llm, arg.transport))]
    /\ UNCHANGED <<arg, state>>

SpecExecute == InitExecute /\ [][ExecutePlan]_vars

---------------------------------------------------------------------------
(* Calls of AgenticToolSelector.select_tools and execute_tools, with tools *)
(* whose execute may raise                                                 *)

ToolInputs == Inputs \cup {Pad(<<"cy.intercept('GET', '/api/users')">>, 12)}

FaultSets == {{}, {REGEX_MATCHER}, {PATTERN_ANALYZER, SYNTAX_VALIDATOR}, {AST_PARSER}}

ToolContexts == {AsDict(ConversionContext(0, FALSE, FALSE, FALSE, 1))}

\* A call of AgenticToolSelector.execute_tools; selected is what its call of
\* select_tools returned
ExecuteTools ==
    /\ ToolRunsBelowBound
    /\ \E code \in ToolInputs, context \in ToolContexts, faults \in FaultSets :
          \E r \in {execute_tools_with_faults(tool_performance, code, context, faults)} :
              /\ tool_performance' = r.tp
              /\ ret' = [op |-> "execute_tools", code |-> code, faults |-> faults,
                         selected |-> select_tools(tool_performance, code, context),
                         before |-> tool_performance, out |-> r.out]
    /\ UNCHANGED <<reflection_engine, arg, memory, threads, learned_patterns,
                   conversion_history, conversion_cases,
                   strategy_performance, store_log, perf_log>>

\* A call of AgenticToolSelector.select_tools
SelectTools ==
    /\ \E code \in ToolInputs, context \in ToolContexts :
          ret' = [op |-> "select_tools", code |-> code,
                  scores |-> tool_scores(tool_performance, code, context),
                  chosen |-> selected_by_score(tool_performance, code, context),
                  out |-> select_tools(tool_performance, code, context)]
    /\ UNCHANGED <<arg, state>>

SpecTools == InitEmpty /\ [][ExecuteTools \/ SelectTools]_vars

---------------------------------------------------------------------------
(* The tool selector called, as convert calls it, with the dicts of        *)
(* contexts that differ in complexity                                      *)

\* context.__dict__ of a simple and of a complex test file
BucketContexts ==
    { AsDict(ConversionContext(0, FALSE, FALSE, FALSE, 1)),
      AsDict(ConversionContext(8, FALSE, FALSE, FALSE, 1)) }

\* A call of AgenticToolSelector.execute_tools in one of the contexts
ExecuteToolsIn ==
    /\ ToolRunsBelowBound
    /\ \E code \in ToolInputs, context \in BucketContexts :
          \E r \in {execute_tools(tool_performance, code, context)} :
              /\ tool_performance' = r.tp
              /\ ret' = [op |-> "execute_tools", code |-> code, context |-> context,
                         before |-> tool_performance, out |-> r.out]
    /\ UNCHANGED <<reflection_engine, arg, memory, threads, learned_patterns,
                   conversion_history, conversion_cases, strategy_performance,
                   store_log, perf_log>>

\* A call of AgenticToolSelector.select_tools in one of the contexts
SelectToolsIn ==
    /\ \E code \in ToolInputs, context \in BucketContexts :
          ret' = [op |-> "select_tools", code |-> code, context |-> context,
                  scores |-> tool_scores(tool_performance, code, context),
                  out |-> select_tools(tool_performance, code, context)]
    /\ UNCHANGED <<arg, state>>

SpecBuckets == InitEmpty /\ [][ExecuteToolsIn \/ SelectToolsIn]_vars

---------------------------------------------------------------------------
(* Conversions of a converter whose loaded patterns have success rates on  *)
(* both sides of the 0.8 threshold of convert                              *)

SuccessRates == {80, 81, 95}

RouteTables ==
    { [i \in DOMAIN LoadedPatterns |->
          [LoadedPatterns[i] EXCEPT !.success_rate = rate[i]]] :
        rate \in [DOMAIN LoadedPatterns -> SuccessRates] }

InitRoute ==
    /\ learned_patterns \in RouteTables
    /\ tool_performance = <<>>
    /\ conversion_history = <<>>
    /\ conversion_cases = <<>>
    /\ strategy_performance = <<>>
    /\ arg = <<>>
    /\ ret = NoCall
    /\ store_log = <<>>
    /\ perf_log = <<>>
    /\ memory = <<>>
    /\ ReflectionFresh
    /\ threads = <<>>

SpecRoute == InitRoute /\ [][ConvertLearning]_vars

---------------------------------------------------------------------------
(* Calls of PatternLearner.find_matching_pattern on a table of patterns    *)

MaxPatterns == 2

PatternIds == <<"p1", "p2", "p3", "p4">>

PatternSignatures ==
    { <<>>, <<"GET_ELEMENT">>, <<"GET_ELEMENT", "CLICK_ELEMENT">>, <<"TYPE_TEXT">>,
      <<"ASSERTION", "TYPE_TEXT">> }

PatternConditions ==
    { <<>>, [has_api_calls |-> FALSE], [has_api_calls |-> TRUE, test_count |-> 2] }

PatternTables ==
    UNION { { [i \in 1..n |-> LearningPattern(PatternIds[i], signature[i], 90, 0, 80,
                                              conditions[i])] :
                signature \in [1..n -> PatternSignatures],
                conditions \in [1..n -> PatternConditions] } : n \in 0..MaxPatterns }

MatchInputs ==
    { <<"cy.get('#user').type('bob')", "cy.click('#go')">>,
      <<"cy.get('#msg').should('contain', 'ok')">>,
      <<"cy.visit('/home')">> }

MatchContexts ==
    { AsDict(ConversionContext(0, FALSE, FALSE, FALSE, 0)),
      AsDict(ConversionContext(8, FALSE, FALSE, FALSE, 2)),
      AsDict(ConversionContext(8, FALSE, TRUE, FALSE, 2)) }

InitMatch ==
    /\ learned_patterns \in PatternTables
    /\ arg \in [input_code : MatchInputs, context : MatchContexts]
    /\ tool_performance = <<>>
    /\ conversion_history = <<>>
    /\ conversion_cases = <<>>
    /\ strategy_performance = <<>>
    /\ ret = NoCall
    /\ store_log = <<>>
    /\ perf_log = <<>>
    /\ memory = <<>>
    /\ ReflectionFresh
    /\ threads = <<>>

\* A call of find_matching_pattern; scores holds the score of each pattern
FindMatchingPattern ==
    /\ ret = NoCall
    /\ ret' = [op |-> "find_matching_pattern",
               scores |-> [i \in DOMAIN learned_patterns |->
                              calculate_pattern_match_score(
                                  key_patterns(arg.input_code, 1), learned_patterns[i],
                                  arg.context)],
               out |-> find_matching_pattern(learned_patterns, arg.input_code,
                                             arg.context)]
    /\ UNCHANGED <<arg, state>>

SpecMatch == InitMatch /\ [][FindMatchingPattern]_vars

---------------------------------------------------------------------------
(* Construction of a PatternLearner on a learned_patterns table            *)

MaxRows == 3

\* the i-th row, with the given texts in its two parsed columns
RowOf(i, context_conditions, last_updated) ==
    PatternRow(PatternIds[i], <<"GET_ELEMENT">>, 90, 0, 80, context_conditions,
               last_updated)

PersistedTables ==
    UNION { { [i \in 1..n |-> RowOf(i, conditions[i], updated[i])] :
                conditions \in [1..n -> {JsonText(<<>>), MalformedJson,
                                         JsonText([has_api_calls |-> FALSE])}],
                updated \in [1..n -> {IsoText(TRUE), IsoText(FALSE)}] } :
            n \in 0..MaxRows }

InitLoad ==
    /\ Fresh
    /\ arg \in PersistedTables

\* PatternLearner.__init__: learned_patterns = {} and _load_patterns(); when
\* it raises no learner (and no converter) is constructed
LoadPatterns ==
    /\ ret = NoCall
    /\ \E loaded \in {load_patterns(arg, 1, <<>>)} :
          /\ learned_patterns' = IF loaded.raised THEN <<>> ELSE loaded.value
          /\ ret' = [op |-> "load_patterns", out |-> loaded]
    /\ UNCHANGED <<reflection_engine,
                   arg, memory, threads, tool_performance, conversion_history, conversion_cases,
                   strategy_performance, store_log, perf_log>>

SpecLoad == InitLoad /\ [][LoadPatterns]_vars

---------------------------------------------------------------------------
(* C2: strategy selection is the first-match-wins table, in the order       *)
(* custom commands, api calls with complexity > 7, form interactions with  *)
(* more than 3 tests, complexity > 6, else simple; a context with          *)
(* hasCustomCommands always yields CustomCommands.                         *)
C2_StrategyTable ==
    ret.op = "decide_strategy" =>
        LET c == ret.context
            r1 == c.has_custom_commands
            r2 == c.has_api_calls /\ c.code_complexity > 7
            r3 == c.has_form_interactions /\ c.test_count > 3
            r4 == c.code_complexity > 6
        IN  /\ ~ret.out.raised
            /\ r1 => ret.out.value = CUSTOM_COMMANDS
            /\ ~r1 /\ r2 => ret.out.value = API_TESTING
            /\ ~r1 /\ ~r2 /\ r3 => ret.out.value = FORM_HEAVY
            /\ ~r1 /\ ~r2 /\ ~r3 /\ r4 => ret.out.value = COMPLEX
            /\ ~r1 /\ ~r2 /\ ~r3 /\ ~r4 => ret.out.value = SIMPLE

C2_Witness ==
    /\ ret.op = "decide_strategy"
    /\ ret.context.has_custom_commands
    /\ ret.context.has_api_calls
    /\ ret.context.code_complexity = 10
    /\ ret.out = Return(CUSTOM_COMMANDS)

---------------------------------------------------------------------------
(* C4: when the oracle's analysis answer is not parseable, _analyze_code    *)
(* returns a context from local heuristics whose complexity is in 1..10,   *)
(* for every input text.                                                   *)
C4_FallbackComplexityInRange ==
    (ret.op = "analyze_code" /\ ret.response.kind = "text") =>
        /\ ~ret.out.raised
        /\ ret.out.value.code_complexity \in 1..10


---------------------------------------------------------------------------
(* C1: for every input and every oracle behaviour (unparseable text, JSON   *)
(* that is not an object, a raised error) convert of the tool-enabled       *)
(* converter returns a ConversionResult: no exception propagates out of    *)
(* convert, failure is signalled only by success = FALSE.                  *)
C1_ConvertNeverRaises ==
    ret.op = "convert_enhanced" =>
        /\ ~ret.out.raised
        /\ ret.out.value.success \in BOOLEAN
        /\ ret.out.value.strategy_used \in ConversionStrategy

---------------------------------------------------------------------------
(* C3: when the tool insights of execute_tools hold a pattern-analyzer      *)
(* result suggesting api_testing_focused (custom_command_heavy), the       *)
(* tool-informed strategy selection returns API_TESTING (CUSTOM_COMMANDS)  *)
(* without consulting the table; with no such suggestion it returns what   *)
(* the decision table returns for the context.                             *)
C3_ToolSuggestionOverrides ==
    (ret.op = "convert_enhanced" /\ ret.strategy # None) =>
        LET results == ret.tools[1].value.tool_results
            suggested(s) ==
                \E i \in 1..Len(results) :
                    /\ results[i].tool_type = Some(PATTERN_ANALYZER)
                    /\ results[i].suggested_strategy = Some(s)
        IN  /\ suggested("api_testing_focused") => ret.strategy[1] = Return(API_TESTING)
            /\ suggested("custom_command_heavy") => ret.strategy[1] = Return(CUSTOM_COMMANDS)
            /\ (~suggested("api_testing_focused") /\ ~suggested("custom_command_heavy"))
                  => ret.strategy[1] = decide_strategy(ret.context.value)

---------------------------------------------------------------------------
(* C5: after any sequence of conversions and store_conversion_case calls   *)
(* the case table holds at most one record per distinct input code (the    *)
(* input hash depends on the input code only, not on the context), every   *)
(* written hash has its record, and the record equals the most recent      *)
(* write for that hash; writing the same case twice leaves one record.     *)
C5_OneRecordPerInput ==
    LET LastWrite(hash) ==
            store_log[CHOOSE i \in DOMAIN store_log :
                        /\ store_log[i].input_hash = hash
                        /\ \A j \in DOMAIN store_log :
                              store_log[j].input_hash = hash => j <= i]
    IN  /\ \A i, j \in DOMAIN conversion_cases :
              i # j => /\ conversion_cases[i].input_code # conversion_cases[j].input_code
                       /\ conversion_cases[i].input_hash # conversion_cases[j].input_hash
        /\ \A i, j \in DOMAIN store_log :
              store_log[i].input_code = store_log[j].input_code
                  => store_log[i].input_hash = store_log[j].input_hash
        /\ \A i \in DOMAIN store_log :
              \E k \in DOMAIN conversion_cases :
                  conversion_cases[k].input_hash = store_log[i].input_hash
        /\ \A k \in DOMAIN conversion_cases :
              /\ \E i \in DOMAIN store_log :
                    store_log[i].input_hash = conversion_cases[k].input_hash
              /\ conversion_cases[k] = LastWrite(conversion_cases[k].input_hash)

C5_Witness ==
    /\ ret.op = "convert_learning"
    /\ ~ret.out.raised
    /\ Len(store_log) = 3
    /\ store_log[1].input_code = ret.input_code
    /\ store_log[1].context # store_log[3].context
    /\ store_log[2] = store_log[3]
    /\ Len(conversion_cases) = 1
    /\ conversion_cases[1] = store_log[3]

---------------------------------------------------------------------------
(* C6: after k calls of update_strategy_performance for one (strategy,     *)
(* context bucket) the row has attempts = k, successes = the number of     *)
(* successful calls (so successes <= attempts) and avg_confidence = the    *)
(* arithmetic mean of the k confidences; a pair without calls has no row,  *)
(* so calls for one pair leave the rows of the other pairs as they were.   *)
C6_RunningMean ==
    LET Key(call) == <<call.strategy, context_hash(call.context)>>
        Keys == {Key(perf_log[i]) : i \in DOMAIN perf_log}
        Calls(key) == SelectSeq(perf_log, LAMBDA call : Key(call) = key)
        Total(calls) ==
            LET sum[i \in 0..Len(calls)] ==
                    IF i = 0 THEN 0 ELSE sum[i - 1] + calls[i].confidence
            IN  sum[Len(calls)]
    IN  /\ DOMAIN strategy_performance = Keys
        /\ \A key \in Keys :
              LET calls == Calls(key)
                  row == strategy_performance[key]
              IN  /\ row.attempts = Len(calls)
                  /\ row.successes =
                        Cardinality({i \in DOMAIN calls : calls[i].success})
                  /\ row.successes <= row.attempts
                  /\ row.avg_confidence[1] * Len(calls)
                        = row.avg_confidence[2] * Total(calls)

C6_Witness ==
    /\ ret.op = "update_strategy_performance"
    /\ Len(perf_log) = 3
    /\ perf_log[1].strategy = perf_log[2].strategy
    /\ perf_log[1].context = perf_log[2].context
    /\ perf_log[3].context # perf_log[1].context
    /\ perf_log[1].confidence = 50 /\ perf_log[2].confidence = 95
    /\ perf_log[1].success /\ ~perf_log[2].success
    /\ \E key \in DOMAIN strategy_performance :
          /\ strategy_performance[key].attempts = 2
          /\ strategy_performance[key].successes = 1
          /\ strategy_performance[key].avg_confidence = <<145, 2>>

---------------------------------------------------------------------------
(* C7: should_reflect returns (true, FailureThreshold) whenever at least 3  *)
(* of the 10 most recent cases failed; with exactly 2 failures it returns  *)
(* (false, none) unless the confidence-drop, periodic or feedback trigger  *)
(* holds.                                                                  *)
C7_FailureThreshold ==
    ret.op = "should_reflect" =>
        LET n == Len(conversion_history)
            window == {i \in 1..n : i > n - 10}
            failures == Cardinality({i \in window : ~conversion_history[i].success})
            older == {i \in 1..n : i > n - 20 /\ i <= n - 10}
            Sum(S) ==
                LET sum[i \in 0..n] ==
                        IF i = 0 THEN 0
                        ELSE sum[i - 1] + (IF i \in S THEN conversion_history[i].confidence
                                           ELSE 0)
                IN  sum[n]
            drop == n >= 20 /\ Sum(window) - Sum(older) < -200
            periodic == n > 0 /\ n % 50 = 0
            feedback ==
                Cardinality({i \in window :
                                /\ conversion_history[i].feedback_score # None
                                /\ conversion_history[i].feedback_score[1] < 3}) >= 2
        IN  /\ failures >= 3 => ret.out = <<TRUE, Some(FAILURE_THRESHOLD)>>
            /\ (failures = 2 /\ ~drop /\ ~periodic /\ ~feedback)
                  => ret.out = <<FALSE, None>>
            /\ failures < 3 => ret.out # <<TRUE, Some(FAILURE_THRESHOLD)>>

C7_Witness ==
    /\ ret.op = "should_reflect"
    /\ Len(conversion_history) = 10
    /\ Cardinality({i \in 1..10 : ~conversion_history[i].success}) = 3
    /\ Cardinality({i \in 1..10 : conversion_history[i].success}) = 7
    /\ ret.out = <<TRUE, Some(FAILURE_THRESHOLD)>>

---------------------------------------------------------------------------
(* C8: the triggers are checked in the order FailureThreshold,             *)
(* ConfidenceDrop, Periodic, UserFeedback and the first that holds is the  *)
(* reported cause; (false, none) is reported exactly when none holds.      *)
C8_TriggerOrder ==
    ret.op = "should_reflect" =>
        LET n == Len(conversion_history)
            window == {i \in 1..n : i > n - 10}
            older == {i \in 1..n : i > n - 20 /\ i <= n - 10}
            Confidence(S) ==
                LET sum[i \in 0..n] ==
                        IF i = 0 THEN 0
                        ELSE sum[i - 1] + (IF i \in S THEN conversion_history[i].confidence
                                           ELSE 0)
                IN  sum[n]
            holds ==
                [FailureThreshold |->
                    Cardinality({i \in window : ~conversion_history[i].success}) >= 3,
                 ConfidenceDrop |->
                    n >= 20 /\ Confidence(window) - Confidence(older) < -200,
                 Periodic |-> n > 0 /\ n % 50 = 0,
                 UserFeedback |->
                    Cardinality({i \in window :
                                    /\ conversion_history[i].feedback_score # None
                                    /\ conversion_history[i].feedback_score[1] < 3}) >= 2]
            order == <<"FailureThreshold", "ConfidenceDrop", "Periodic", "UserFeedback">>
            cause == <<FAILURE_THRESHOLD, CONFIDENCE_DROP, PERIODIC, USER_FEEDBACK>>
        IN  /\ \A k \in 1..4 :
                  (holds[order[k]] /\ \A j \in 1..(k - 1) : ~holds[order[j]])
                      => ret.out = <<TRUE, Some(cause[k])>>
            /\ (ret.out = <<FALSE, None>>) <=> (\A k \in 1..4 : ~holds[order[k]])

C8_Witness ==
    /\ ret.op = "should_reflect"
    /\ Len(conversion_history) = 50
    /\ \A i \in 1..50 : conversion_history[i].success
    /\ conversion_history[50].confidence = 50
    /\ conversion_history[49].feedback_score = Some(2)
    /\ conversion_history[41].feedback_score = Some(2)
    /\ ret.out = <<TRUE, Some(CONFIDENCE_DROP)>>

---------------------------------------------------------------------------
(* C9: after feedback scores below 3 have been submitted with              *)
(* provide_feedback for at least two of the ten most recent conversions,   *)
(* and no earlier trigger holds, should_reflect returns                    *)
(* (true, UserFeedback).                                                   *)
C9_FeedbackTriggersReflection ==
    LET n == Len(conversion_history)
        window == {i \in 1..n : i > n - 10}
        rated_low ==
            {conversion_history[i].input_hash : i \in window} \cap
            {conversion_cases[k].input_hash : k \in
                {k \in DOMAIN conversion_cases :
                    /\ conversion_cases[k].feedback_score # None
                    /\ conversion_cases[k].feedback_score[1] < 3}}
        failures == Cardinality({i \in window : ~conversion_history[i].success})
    IN  (/\ ret.op = "should_reflect"
         /\ Cardinality(rated_low) >= 2
         /\ failures < 3
         /\ n < 20
         /\ n % 50 # 0)
            => ret.out = <<TRUE, Some(USER_FEEDBACK)>>

---------------------------------------------------------------------------
C11_BestAboveThreshold ==
    ret.op = "find_matching_pattern" =>
        LET above == {i \in DOMAIN learned_patterns : ScoreAbove(ret.scores[i], 70)}
        IN  /\ ret.out = None <=> above = {}
            /\ ret.out # None =>
                  \E i \in above :
                      /\ ret.out = Some(learned_patterns[i])
                      /\ \A j \in DOMAIN learned_patterns :
                            ~ScoreGreater(ret.scores[j], ret.scores[i])
            /\ \A i \in DOMAIN learned_patterns :
                  ret.scores[i] = <<7, 10>> => ret.out # Some(learned_patterns[i])

\* the second pattern scores 1.0 and is returned although the first one
\* scores 0.85, above the threshold
C11_Witness ==
    /\ ret.op = "find_matching_pattern"
    /\ Len(learned_patterns) = 2
    /\ ret.scores = <<<<17, 20>>, <<1, 1>>>>
    /\ ret.out = Some(learned_patterns[2])

---------------------------------------------------------------------------
---------------------------------------------------------------------------
(* C13: if the pattern-guided conversion raises internally, the error is   *)
(* not propagated: the request falls back to the standard conversion, its  *)
(* result is what the caller receives, and exactly one case is recorded    *)
(* in the history and in the store for that request.                       *)
C13_PatternFailureFallsBack ==
    (ret.op = "convert_learning" /\ ret.path = <<"pattern", "standard">>) =>
        /\ ~ret.out.raised
        /\ "used_pattern" \notin DOMAIN ret.out.value.metadata.base
        /\ Len(ret.stored) = 1
        /\ conversion_history # <<>>
        /\ conversion_history[Len(conversion_history)] = ret.stored[1]
        /\ Cardinality({k \in DOMAIN conversion_cases :
                           conversion_cases[k].input_hash = md5_16(ret.input_code)}) = 1

---------------------------------------------------------------------------
(* C14: during execute_tools an exception raised by a selected tool is     *)
(* caught and recorded as a failed result (success = false) for that tool, *)
(* and every remaining selected tool is still executed: the recorded       *)
(* results are one per selected tool, in selection order.                  *)
C14_ToolFailureIsolated ==
    ret.op = "execute_tools" =>
        /\ ~ret.selected.raised
        /\ ~ret.out.raised
        /\ LET selected == ret.selected.value
               results == ret.out.value.tool_results
           IN  /\ Len(results) = Len(selected)
               /\ ret.out.value.tools_used = Len(selected)
               /\ \A i \in DOMAIN selected :
                     /\ results[i].tool_type = Some(selected[i])
                     /\ selected[i] \in ret.faults
                           => /\ ~results[i].success
                              /\ results[i].error # None
                     /\ selected[i] \notin ret.faults
                           => /\ results[i].error = None
                              /\ results[i].tool_used # None

\* the first of three selected tools raised and the two after it ran
C14_Witness ==
    /\ ret.op = "execute_tools"
    /\ Len(ret.selected.value) = 3
    /\ ret.selected.value[1] \in ret.faults
    /\ ret.out.value.tool_results[1].error # None
    /\ ret.out.value.tool_results[2].error = None
    /\ ret.out.value.tool_results[3].error = None

---------------------------------------------------------------------------
(* C15: for every input, context and performance table the list returned   *)
(* by select_tools contains the syntax validator exactly once; if the      *)
(* scoring did not select it, it is appended as the last element.          *)
C15_ValidatorExactlyOnce ==
    ret.op = "select_tools" =>
        LET sorted == sort_by_score(ret.scores)
            scored == add_complementary(sorted, 2,
                          IF ScoreAbove(sorted[1].score, 50)
                          THEN <<sorted[1].tool>> ELSE <<>>)
            by_scoring == \E i \in DOMAIN scored.value :
                              scored.value[i] = SYNTAX_VALIDATOR
        IN  /\ ~ret.out.raised
            /\ ~scored.raised
            /\ Cardinality({i \in DOMAIN ret.out.value :
                               ret.out.value[i] = SYNTAX_VALIDATOR}) = 1
            /\ by_scoring => ret.out.value = scored.value
            /\ ~by_scoring => ret.out.value = Append(scored.value, SYNTAX_VALIDATOR)

\* after a failed validation the validator scores 0.56: the scoring selects
\* two other tools and the validator is appended last
C15_Witness ==
    /\ ret.op = "select_tools"
    /\ ret.scores[4].tool = SYNTAX_VALIDATOR
    /\ 100 * ret.scores[4].score[1] = 56 * ret.scores[4].score[2]
    /\ Len(ret.out.value) = 3
    /\ ret.out.value[3] = SYNTAX_VALIDATOR
    /\ ret.out.value[1] # SYNTAX_VALIDATOR
    /\ ret.out.value[2] # SYNTAX_VALIDATOR

---------------------------------------------------------------------------
(* C16: provide_feedback called with an input hash that matches no stored  *)
(* case completes without raising and leaves every stored case, every     *)
(* strategy-performance row and the in-memory history unchanged; called    *)
(* with a matching hash it changes only that case's feedback_score.        *)
C16_FeedbackTouchesOnlyItsCase ==
    [][ret'.op = "provide_feedback" =>
          /\ ~ret'.out.raised
          /\ conversion_history' = conversion_history
          /\ strategy_performance' = strategy_performance
          /\ tool_performance' = tool_performance
          /\ learned_patterns' = learned_patterns
          /\ DOMAIN conversion_cases' = DOMAIN conversion_cases
          /\ \A k \in DOMAIN conversion_cases :
                IF conversion_cases[k].input_hash = ret'.input_hash
                THEN conversion_cases'[k] =
                        [conversion_cases[k] EXCEPT
                            !.feedback_score = Some(ret'.feedback_score)]
                ELSE conversion_cases'[k] = conversion_cases[k]
          /\ (\A k \in DOMAIN conversion_cases :
                  conversion_cases[k].input_hash # ret'.input_hash)
                => conversion_cases' = conversion_cases]_vars

\* feedback for a hash that no stored case has, with another case stored,
\* whose feedback_score is as it was
C16_Witness ==
    /\ ret.op = "provide_feedback"
    /\ conversion_cases # <<>>
    /\ \A k \in DOMAIN conversion_cases :
          /\ conversion_cases[k].input_hash # ret.input_hash
          /\ conversion_cases[k].feedback_score = None

---------------------------------------------------------------------------
(* C17: if the oracle call of the final conversion step raises or returns  *)
(* unusable content (the transport wrapper's error text), the conversion   *)
(* result has success = false, confidence 0 and the error text in code and *)
(* issues; a result with success = true comes only from usable oracle      *)
(* output, i.e. from a request that did not fail.                          *)
C17_OracleFailureSurfaces ==
    ret.op = "execute_plan" =>
        /\ ~ret.out.raised
        /\ ret.transport.kind = "raise" =>
              /\ ~ret.out.value.success
              /\ ret.out.value.confidence = 0
              /\ ret.out.value.issues # <<>>
              /\ ret.out.value.code = "// Error during conversion: OracleError"
        /\ ret.out.value.success => ret.transport.kind # "raise"

---------------------------------------------------------------------------
(* C18: at startup a persisted pattern record that fails to deserialize is *)
(* skipped; loading continues with the remaining records, and the          *)
(* construction of the pattern learner never fails because of a malformed  *)
(* record: the loaded patterns are the well-formed records.                *)
C18_MalformedRecordSkipped ==
    ret.op = "load_patterns" =>
        LET well_formed == {i \in DOMAIN arg : /\ arg[i].context_conditions.json
                                                /\ arg[i].last_updated.iso}
        IN  /\ ~ret.out.raised
            /\ Len(learned_patterns) = Cardinality(well_formed)
            /\ \A i \in well_formed :
                  \E k \in DOMAIN learned_patterns :
                      learned_patterns[k].pattern_id = arg[i].pattern_id

---------------------------------------------------------------------------
---------------------------------------------------------------------------
(* C20: under concurrent requests the read-modify-write update of the      *)
(* tool performance table is mutually exclusive: after n executions for    *)
(* the same key, in any interleaving, attempts has grown by n and          *)
(* successes by the number of successful executions (no lost update).      *)
C20_NoLostUpdate ==
    (\A t \in DOMAIN threads : threads[t].pc = "done") =>
        LET before(field) == IF UpdateKey \in DOMAIN arg.table
                             THEN arg.table[UpdateKey][field] ELSE 0
        IN  /\ tool_performance[UpdateKey].attempts
                  = before("attempts") + Cardinality(DOMAIN threads)
            /\ tool_performance[UpdateKey].successes
                  = before("successes")
                      + Cardinality({t \in DOMAIN threads : threads[t].success})

---------------------------------------------------------------------------
(* C21: case writes are atomic per record under concurrent requests.  At   *)
(* every moment each row of conversion_cases is, in full, a row the table  *)
(* started with or the case of one of the calls, and no two rows share an  *)
(* input hash.  Once every call has returned, each input hash that a call  *)
(* wrote has exactly one row, equal to the case of the call that committed *)
(* last for that hash; calls with different hashes have left one row each; *)
(* and the rows the table started with for other hashes are still there.   *)

C21_CaseWritesAtomic ==
    /\ \A i \in DOMAIN conversion_cases :
          \/ \E j \in DOMAIN arg.table : conversion_cases[i] = arg.table[j]
          \/ \E t \in DOMAIN threads : conversion_cases[i] = threads[t].case
    /\ \A i, j \in DOMAIN conversion_cases :
          conversion_cases[i].input_hash = conversion_cases[j].input_hash => i = j
    /\ (\A t \in DOMAIN threads : threads[t].pc = "done") =>
          /\ Len(store_log) = Len(threads)
          /\ \A t \in DOMAIN threads :
                \E i \in DOMAIN conversion_cases :
                    /\ conversion_cases[i].input_hash = threads[t].case.input_hash
                    /\ \E k \in DOMAIN store_log :
                          /\ conversion_cases[i] = store_log[k]
                          /\ \A later \in DOMAIN store_log :
                                store_log[later].input_hash = store_log[k].input_hash
                                    => later <= k
          /\ \A j \in DOMAIN arg.table :
                (\A t \in DOMAIN threads :
                    threads[t].case.input_hash # arg.table[j].input_hash)
                    => \E i \in DOMAIN conversion_cases :
                          conversion_cases[i] = arg.table[j]

\* two calls for the same input hash with different output, and a call for
\* another hash, have all returned
C21_Witness ==
    /\ \A t \in DOMAIN threads : threads[t].pc = "done"
    /\ \E t, u \in DOMAIN threads :
          /\ threads[t].case.input_hash = threads[u].case.input_hash
          /\ threads[t].case.output_code # threads[u].case.output_code
    /\ Len(conversion_cases) >= 1

---------------------------------------------------------------------------
(* C22: when a reflection trigger fires while the autonomy level is not    *)
(* above 0.7, the call of convert still produces the reflection insights   *)
(* and plans no improvement action.                                        *)

C22_InsightsReportedBelowGate ==
    (/\ ret.op = "convert_fully"
     /\ ret.should_reflect[1]
     /\ ret.autonomy_level <= 70)
        => /\ ret.insights # None
           /\ Len(improvement_actions) = ret.actions_before

---------------------------------------------------------------------------
(* C23: a reflection pass is read-only with respect to conversion          *)
(* behaviour.  A step of perform_reflection appends one record to the      *)
(* reflection history, makes it the last reflection and only extends the   *)
(* improvement-action log; it leaves the conversion history, the tool      *)
(* performance table, the learned patterns, the autonomy level, the case   *)
(* store and the strategy statistics as they were, so that the tools       *)
(* selected, the pattern matched and the outcome of converting the next    *)
(* input (with the strategy it names) are those that would have been       *)
(* chosen without the pass.                                                *)

C23_ReflectionReadOnly ==
    [][ret'.op = "perform_reflection" =>
          /\ UNCHANGED <<conversion_history, tool_performance, learned_patterns,
                         autonomy_level, conversion_cases, strategy_performance>>
          /\ Len(reflection_history') = Len(reflection_history) + 1
          /\ SubSeq(reflection_history', 1, Len(reflection_history)) = reflection_history
          /\ last_reflection' = Some(reflection_history'[Len(reflection_history')])
          /\ SubSeq(improvement_actions', 1, Len(improvement_actions)) = improvement_actions
          /\ \A code \in LearningInputs :
                LET context == AsDict(heuristic_context(code))
                IN  /\ select_tools(tool_performance', code, context)
                          = select_tools(tool_performance, code, context)
                    /\ find_matching_pattern(learned_patterns', code, context)
                          = find_matching_pattern(learned_patterns, code, context)
                    /\ \A oracle \in FullyOracles :
                          LearningAgenticConverter_convert(Agent', code, oracle).out
                              = LearningAgenticConverter_convert(Agent, code, oracle).out]_vars

\* a pass has run on a converter that holds tool statistics and a history,
\* and has planned actions
C23_Witness ==
    /\ ret.op = "perform_reflection"
    /\ tool_performance # <<>>
    /\ conversion_history # <<>>
    /\ Len(improvement_actions) >= 2
    /\ last_reflection # None

---------------------------------------------------------------------------
(* C24: the tools that select_tools chooses by score, before it ensures    *)
(* the validator, are the top scorer if its score is above 0.5, followed   *)
(* in descending score order by the tools whose score is above 0.6, at     *)
(* most 3 in all; the tools have distinct kinds, so every tool after the   *)
(* top scorer differs in kind from those already chosen.  With a top score *)
(* of 0.5 or less nothing is chosen by score, and select_tools returns.    *)

---------------------------------------------------------------------------
(* C25: a tool's selection score is 0.7 * canHandle + 0.3 * historical,    *)
(* where historical is the success rate recorded for the tool in the       *)
(* bucket of the current context and 0.5 when nothing is recorded there;   *)
(* an execution in a context of another complexity leaves the scores       *)
(* computed for the current context as they were.                          *)

C25_ScorePerBucket ==
    [][/\ ret'.op = "select_tools" =>
            \A i \in DOMAIN ret'.scores :
                LET key == ToolKey(ret'.scores[i].tool, ret'.context)
                    historical == IF key \in DOMAIN tool_performance'
                                  THEN tool_performance'[key].success_rate ELSE <<1, 2>>
                    score == ret'.scores[i].score
                IN  score[1] * 100 * historical[2]
                        = (7 * can_handle(ret'.scores[i].tool, ret'.code) * historical[2]
                              + 3 * 10 * historical[1]) * score[2]
       /\ ret'.op = "execute_tools" =>
            \A context \in BucketContexts, code \in ToolInputs :
                context.code_complexity # ret'.context.code_complexity
                    => tool_scores(tool_performance', code, context)
                          = tool_scores(tool_performance, code, context)]_vars

---------------------------------------------------------------------------
(* C26: execute_tools runs the selected tools in selection order.  Each    *)
(* tool that does not raise returns what it returns on the converted text  *)
(* of the most recent earlier tool that produced one, or on the original   *)
(* input if none did; final_code is the last converted text produced, or   *)
(* the original input.  A tool that raises contributes no text.            *)

C26_CodeFedForward ==
    ret.op = "execute_tools" =>
        LET selected == ret.selected.value
            results == ret.out.value.tool_results
            producers(i) == {j \in 1..(i - 1) : results[j].converted_code # None}
            latest(i) == CHOOSE j \in producers(i) : \A k \in producers(i) : k <= j
            input(i) == IF producers(i) = {} THEN ret.code
                        ELSE results[latest(i)].converted_code[1]
        IN  /\ Len(results) = Len(selected)
            /\ \A i \in DOMAIN selected :
                  /\ results[i].tool_type = Some(selected[i])
                  /\ selected[i] \in ret.faults => results[i].converted_code = None
                  /\ selected[i] \notin ret.faults =>
                        results[i] = [execute(selected[i], input(i))
                                         EXCEPT !.tool_type = Some(selected[i])]
            /\ ret.out.value.final_code = input(Len(results) + 1)

\* the regex matcher produced text that differs from the input and the
\* validator, run after it, reported on that text
C26_Witness ==
    /\ ret.op = "execute_tools"
    /\ \E i, j \in DOMAIN ret.out.value.tool_results :
          /\ i < j
          /\ ret.out.value.tool_results[i].converted_code # None
          /\ ret.out.value.tool_results[i].converted_code[1] # ret.code
          /\ ret.out.value.tool_results[j].tool_type = Some(SYNTAX_VALIDATOR)
          /\ ret.out.value.tool_results[j].error = None
          /\ ret.out.value.tool_results[j]
                # [execute(SYNTAX_VALIDATOR, ret.code)
                      EXCEPT !.tool_type = Some(SYNTAX_VALIDATOR)]
    /\ ret.out.value.final_code # ret.code

---------------------------------------------------------------------------
(* C27: after every execution of a selected tool, whether it returned      *)
(* success, returned failure or raised, the performance entry of the tool  *)
(* has attempts increased by exactly one, successes increased by one only  *)
(* on success, and success_rate = successes / attempts; and every entry    *)
(* of the table has 0 <= successes <= attempts.                            *)

C27_EveryExecutionCounted ==
    /\ \A key \in DOMAIN tool_performance :
          /\ 0 <= tool_performance[key].successes
          /\ tool_performance[key].successes <= tool_performance[key].attempts
          /\ tool_performance[key].success_rate
                = Fraction(tool_performance[key].successes,
                           tool_performance[key].attempts)
    /\ ret.op = "execute_tools" =>
          \A i \in DOMAIN ret.selected.value :
              LET tool_key == ToolKey(ret.selected.value[i],
                                      CHOOSE context \in ToolContexts : TRUE)
                  old == IF tool_key \in DOMAIN ret.before THEN ret.before[tool_key]
                         ELSE [attempts |-> 0, successes |-> 0]
                  success == ret.out.value.tool_results[i].success
              IN  /\ tool_key \in DOMAIN tool_performance
                  /\ tool_performance[tool_key].attempts = old.attempts + 1
                  /\ tool_performance[tool_key].successes
                        = old.successes + (IF success THEN 1 ELSE 0)

---------------------------------------------------------------------------
(* C28: validation happens at the end: in every list that select_tools     *)
(* returns, whatever the performance table, the syntax validator is the    *)
(* last tool.                                                              *)

C28_ValidatorLast ==
    ret.op = "select_tools" =>
        /\ ~ret.out.raised
        /\ ret.out.value # <<>>
        /\ ret.out.value[Len(ret.out.value)] = SYNTAX_VALIDATOR

---------------------------------------------------------------------------
(* C29: should_reflect returns the ConfidenceDrop trigger exactly when the *)
(* history holds at least 20 cases, fewer than 3 of the last 10 failed and *)
(* the mean confidence of the last 10 cases minus the mean confidence of   *)
(* the 10 cases before them is below -0.2; with fewer than 20 cases it     *)
(* never returns it.  (Sums are in hundredths: the difference of the means *)
(* is below -0.2 when the difference of the sums is below -200.)           *)

C29_ConfidenceDrop ==
    ret.op = "should_reflect" =>
        LET history == conversion_history
            recent == Last(history, 10)
            failures == Cardinality({i \in DOMAIN recent : ~recent[i].success})
            older == SubSeq(history, Len(history) - 19, Len(history) - 10)
        IN  (ret.out = <<TRUE, Some(CONFIDENCE_DROP)>>)
                <=> /\ Len(history) >= 20
                    /\ failures < 3
                    /\ sum_confidence(recent, 1) - sum_confidence(older, 1) < -200

---------------------------------------------------------------------------
(* C30: the Periodic trigger is a modulo test on the conversion counter.   *)
(* In runs in which no other trigger holds, a call of convert finds the    *)
(* Periodic trigger exactly when the number of cases is a positive         *)
(* multiple of 50, never at 0, and it is found once for each multiple of   *)
(* 50 that the counter reaches.                                            *)

C30_PeriodicOncePerMultiple ==
    /\ ret.op = "convert_fully" =>
          /\ ret.should_reflect[2] \in {None, Some(PERIODIC)}
          /\ ret.should_reflect = <<TRUE, Some(PERIODIC)>>
                <=> (ret.conversions % 50 = 0 /\ ret.conversions > 0)
    /\ \A i \in DOMAIN trigger_log :
          /\ trigger_log[i].trigger = PERIODIC
          /\ trigger_log[i].conversions % 50 = 0
          /\ trigger_log[i].conversions > 0
    /\ \A i, j \in DOMAIN trigger_log :
          trigger_log[i].conversions = trigger_log[j].conversions => i = j

\* C31: perform_reflection returns its insights in non-increasing order of
\* priority, every priority is in 1..5, and the pass appends to the action
\* log exactly one action with the status "planned" for each insight of
\* priority 4 or 5, in the order of the insights, and none for the other
\* insights; the record of the pass has that number as actions_planned
C31_InsightsSortedActionsPlanned ==
    ret.op = "perform_reflection" =>
        LET insights == ret.out
            high == {i \in DOMAIN insights : insights[i].priority >= 4}
            before == Len(ret.actions_before)
            rank(i) == Cardinality({j \in high : j <= i})
        IN  /\ \A i, j \in DOMAIN insights :
                  i < j => insights[i].priority >= insights[j].priority
            /\ \A i \in DOMAIN insights : insights[i].priority \in 1..5
            /\ Len(improvement_actions) = before + Cardinality(high)
            /\ SubSeq(improvement_actions, 1, before) = ret.actions_before
            /\ \A i \in high :
                  /\ improvement_actions[before + rank(i)].status = "planned"
                  /\ improvement_actions[before + rank(i)].insight_type
                        = insights[i].insight_type
                  /\ improvement_actions[before + rank(i)].action
                        = insights[i].suggested_action
                  /\ improvement_actions[before + rank(i)].priority
                        = insights[i].priority
            /\ reflection_history[Len(reflection_history)].actions_planned
                  = Cardinality(high)
            /\ reflection_history[Len(reflection_history)].insights = insights

\* a second pass that found a strategy to use more (priority 4) before it
\* found a failing one (priority 5), and an insight that plans no action
C31_Witness ==
    /\ ret.op = "perform_reflection"
    /\ ret.actions_before # <<>>
    /\ \E i, j, k \in DOMAIN ret.out :
          /\ ret.out[i].insight_type = "strategy_failure" /\ ret.out[i].priority = 5
          /\ ret.out[j].insight_type = "strategy_success" /\ ret.out[j].priority = 4
          /\ ret.out[k].priority < 4
          /\ i < j /\ j < k

\* C32: every convert that takes the pattern-guided path for an input adds
\* exactly one to the usage_count of the pattern it applies, whether the
\* guided conversion succeeds or not; no step lowers a usage_count and no
\* step changes any other pattern
C32_PatternUsageCounted ==
    [][LET applied(i) ==
              /\ ret'.op = "convert_learning"
              /\ \E k \in DOMAIN ret'.path : ret'.path[k] = "pattern"
              /\ ret'.matching_pattern[1].pattern_id = learned_patterns[i].pattern_id
       IN  /\ DOMAIN learned_patterns' = DOMAIN learned_patterns
           /\ \A i \in DOMAIN learned_patterns :
                 learned_patterns'[i] =
                    IF applied(i)
                    THEN [learned_patterns[i] EXCEPT !.usage_count = @ + 1]
                    ELSE learned_patterns[i]]_vars

\* C33: in a conversion request that returns, the case of the request is in
\* the store and at the end of the history, the strategy statistics have
\* counted it, and the reflection triggers are evaluated after that, on the
\* history that holds this case: the result reports the trigger found on
\* it, and the insights of the pass are those of this history
C33_TriggersCheckedAfterRecording ==
    (ret.op = "convert_fully" /\ ~ret.out.raised) =>
        LET reflection == ret.out.value.metadata.reflection
            case == conversion_history[Len(conversion_history)]
        IN  /\ Len(conversion_history) = ret.conversions + 1
            /\ case.input_code = ret.input_code
            /\ \E k \in DOMAIN conversion_cases : conversion_cases[k] = case
            /\ store_log[Len(store_log)] = case
            /\ perf_log[Len(perf_log)] = PerfCall(case)
            /\ reflection.reflection_triggered = should_reflect(conversion_history)[1]
            /\ reflection.trigger = should_reflect(conversion_history)[2]
            /\ ret.insights # None =>
                  ret.insights[1] =
                      reflection_insights(gather_performance_metrics(conversion_history))

\* C34: in a request of the tool-enabled converter that reaches the
\* tool-informed strategy selection, the selection yields a strategy, the
\* request returns a result, and the result records that strategy (the one
\* whose prompt the oracle was given) and the length of the plan built for it
C34_StrategyUsedThroughout ==
    (ret.op = "convert_enhanced" /\ ret.strategy # None) =>
        /\ ~ret.strategy[1].raised
        /\ ~ret.out.raised
        /\ ret.out.value.strategy_used = ret.strategy[1].value
        /\ "plan_steps" \in DOMAIN ret.out.value.metadata.base =>
              ret.out.value.metadata.base.plan_steps = plan_steps(ret.strategy[1].value)

\* C35: no conversion creates, deletes or replaces a learned pattern: the
\* patterns of the converter are those loaded at construction, in the same
\* order and with the same fields, the usage count (which only grows)
\* apart; this also holds after the learning step of every tenth
\* conversion, whether it finds enough successful cases or not
C35_PatternSetAsLoaded ==
    /\ Len(learned_patterns) = Len(LoadedPatterns)
    /\ \A i \in DOMAIN learned_patterns :
          /\ [learned_patterns[i] EXCEPT !.usage_count = LoadedPatterns[i].usage_count]
                = LoadedPatterns[i]
          /\ learned_patterns[i].usage_count >= LoadedPatterns[i].usage_count
    /\ (ret.op = "convert_fully" /\ ~ret.out.raised) =>
          ret.out.value.metadata.learning.total_learned_patterns = Len(LoadedPatterns)

\* the fiftieth conversion has returned: its learning step found enough
\* successful cases, and a pattern has been applied since construction
C35_Witness ==
    /\ ret.op = "convert_fully"
    /\ ~ret.out.raised
    /\ Len(conversion_history) = 50
    /\ ret.out.value.metadata.learning.conversion_number = 50
    /\ enough_to_learn(conversion_history)
    /\ \E i \in DOMAIN learned_patterns :
          learned_patterns[i].usage_count > LoadedPatterns[i].usage_count

\* C36: after a conversion that returns, the store holds one case for the
\* hash of the input, the case of this conversion, and its feedback_score
\* is null, also when the case it replaced carried a feedback score
C36_FeedbackLostOnResubmission ==
    (ret.op = "convert_learning" /\ ~ret.out.raised) =>
        LET rows == {k \in DOMAIN conversion_cases :
                        conversion_cases[k].input_hash = md5_16(ret.input_code)}
        IN  /\ Cardinality(rows) = 1
            /\ \A k \in rows :
                  /\ conversion_cases[k].feedback_score = None
                  /\ conversion_cases[k] = ret.stored[1]

\* the conversion replaced a stored case of the same input that carried a
\* feedback score
C36_Witness ==
    /\ ret.op = "convert_learning"
    /\ ~ret.out.raised
    /\ Len(ret.replaced) = 1
    /\ ret.replaced[1].feedback_score # None
    /\ ret.replaced[1].input_code = ret.input_code

\* C37: a learned pattern without context conditions scores at most 0.7,
\* which is not above the threshold, and find_matching_pattern never
\* returns it, whatever the input, the context and the other patterns
C37_NoConditionsNeverReturned ==
    ret.op = "find_matching_pattern" =>
        \A i \in DOMAIN learned_patterns :
            DOMAIN learned_patterns[i].context_conditions = {} =>
                /\ ~ScoreGreater(ret.scores[i], <<7, 10>>)
                /\ ret.out # Some(learned_patterns[i])

\* a pattern without conditions has the steps of the input and scores 0.7
\* exactly; the pattern returned is the one after it, with the same steps
\* and conditions that hold
C37_Witness ==
    /\ ret.op = "find_matching_pattern"
    /\ Len(learned_patterns) = 2
    /\ DOMAIN learned_patterns[1].context_conditions = {}
    /\ ret.scores[1] = <<7, 10>>
    /\ learned_patterns[2].input_pattern = learned_patterns[1].input_pattern
    /\ ret.out = Some(learned_patterns[2])

\* C38: a reflection pass on a history whose last twenty cases carry no
\* feedback score (an empty history included) records a user satisfaction
\* of 0, returns a low_user_satisfaction insight of priority 5 and appends
\* a planned action for it, so the action log grows by at least one
C38_NoFeedbackMeansLowSatisfaction ==
    (/\ ret.op = "perform_reflection"
     /\ \A i \in DOMAIN conversion_history :
           i > Len(conversion_history) - 20 => conversion_history[i].feedback_score = None)
        => /\ reflection_history[Len(reflection_history)].metrics.user_satisfaction[1] = 0
           /\ \E i \in DOMAIN ret.out :
                 /\ ret.out[i].insight_type = "low_user_satisfaction"
                 /\ ret.out[i].priority = 5
           /\ Len(improvement_actions) >= Len(ret.actions_before) + 1
           /\ \E k \in DOMAIN improvement_actions :
                 /\ k > Len(ret.actions_before)
                 /\ improvement_actions[k].insight_type = "low_user_satisfaction"
                 /\ improvement_actions[k].status = "planned"

\* a pass on 25 successful cases of which only the first, outside the
\* window, was rated, and rated 5: the two actions planned are for the low
\* satisfaction and for the strategy that succeeds
C38_Witness ==
    /\ ret.op = "perform_reflection"
    /\ Len(conversion_history) = 25
    /\ conversion_history[1].feedback_score = Some(5)
    /\ \A i \in 6..25 : conversion_history[i].feedback_score = None
    /\ \A i \in 1..25 : conversion_history[i].success
    /\ ret.actions_before = <<>>
    /\ Len(improvement_actions) = 2
    /\ improvement_actions[1].insight_type = "low_user_satisfaction"

\* C39: when the requests that ran update_strategy_performance at the same
\* time for one strategy and context have all ended, none of them has
\* raised, attempts has grown by their number and successes by the number
\* of successful ones, whether the row existed before or not
C39_ConcurrentUpdatesCounted ==
    (\A t \in DOMAIN threads : threads[t].pc \in {"done", "IntegrityError"}) =>
        LET before(field) == IF PerfKey \in DOMAIN arg.table
                             THEN arg.table[PerfKey][field] ELSE 0
        IN  /\ \A t \in DOMAIN threads : threads[t].pc = "done"
            /\ PerfKey \in DOMAIN strategy_performance
            /\ strategy_performance[PerfKey].attempts
                  = before("attempts") + Cardinality(DOMAIN threads)
            /\ strategy_performance[PerfKey].successes
                  = before("successes")
                      + Cardinality({t \in DOMAIN threads : threads[t].success})

\* C40: reflection has no cooldown.  Every call of convert that finds a
\* trigger on the history while the autonomy level is above 0.7 makes a
\* reflection pass, however recent the last pass: the reflection history
\* grows by one record, for that trigger.  No step removes or changes an
\* entry of the improvement-action log, and every action has the status
\* "planned"
C40_NoCooldown ==
    [][/\ (/\ ret'.op = "convert_fully"
           /\ should_reflect(conversion_history)[1]
           /\ autonomy_level > 70)
          => /\ Len(reflection_history') = Len(reflection_history) + 1
             /\ SubSeq(reflection_history', 1, Len(reflection_history))
                   = reflection_history
             /\ reflection_history'[Len(reflection_history')].trigger
                   = should_reflect(conversion_history)[2][1]
             /\ last_reflection' = Some(reflection_history'[Len(reflection_history')])
       /\ Len(improvement_actions') >= Len(improvement_actions)
       /\ SubSeq(improvement_actions', 1, Len(improvement_actions)) = improvement_actions
       /\ \A k \in DOMAIN improvement_actions' :
             improvement_actions'[k].status = "planned"]_vars

\* two calls of convert found the periodic trigger on the same 50
\* cases, and the second one reflected again, adding to the actions that
\* were planned before
C40_Witness ==
    /\ ret.op = "convert_fully"
    /\ ret.insights # None
    /\ ret.actions_before > 0
    /\ Len(trigger_log) = 2
    /\ trigger_log[1].conversions = 50 /\ trigger_log[2].conversions = 50
    /\ Len(reflection_history) = 2
    /\ Len(improvement_actions) > ret.actions_before

====
